---- MODULE Spec2Model ----
(***************************************************************************)
(* Build pipeline of postcod.es (pipeline/build/workflows.py): bundle      *)
(* creation, the run controller with its per-pass transactions, the ten    *)
(* passes, verification and publication, over a small fixed set of ingest  *)
(* runs.  Decimals with four places are integers in units of 0.0001.       *)
(***************************************************************************)
EXTENDS Integers, Sequences, FiniteSets, TLC

VARIABLES
    db,       \* the committed database
    tx,       \* what the open connection sees: db plus its uncommitted writes
    seq,      \* the serial sequences (candidate_id, final_id); never rolled back
    pc,       \* position of the running command ("idle" when none runs)
    op,       \* locals of the running run_build
    outcome,  \* what the last finished command returned or raised
    env,      \* configuration and the manifests the operator may submit
    hist,     \* history: the injected failures counted, the last operation, and
              \* the manifest each bundle was created from
    peer      \* a second run_build process on a connection of its own, while
              \* it is not the one taking steps: its position and its locals

vars == <<db, tx, seq, pc, op, outcome, env, hist, peer>>

NULL == "NULL"

----------------------------------------------------------------------------
(* Generic helpers *)

Range(s) == {s[i] : i \in DOMAIN s}

RECURSIVE SumOver(_, _)
\* sum of f[x] for x in the finite set S
SumOver(S, f) ==
    IF S = {} THEN 0
    ELSE LET x == CHOOSE y \in S : TRUE IN f[x] + SumOver(S \ {x}, f)

RECURSIVE SortInts(_)
\* Python sorted() of a tuple of run ids (ids are integers in their sort order)
SortInts(s) ==
    IF Len(s) <= 1 THEN s
    ELSE LET m == CHOOSE i \in DOMAIN s : \A j \in DOMAIN s : s[i] <= s[j]
             rest == [k \in 1..(Len(s) - 1) |-> IF k < m THEN s[k] ELSE s[k + 1]]
         IN <<s[m]>> \o SortInts(rest)

\* the elements of the finite set S as a sequence, ascending in the injective
\* integer key k[x]  (SQL ORDER BY on a total key)
SortBy(S, k) ==
    LET keyed == {<<k[x], x>> : x \in S}
        ranked == {<<Cardinality({q \in keyed : q[1] < p[1]}), p[2]>> : p \in keyed}
    IN [i \in 1..Cardinality(S) |-> (CHOOSE p \in ranked : p[1] = i - 1)[2]]

----------------------------------------------------------------------------
(* Constants of the program *)

PASS_ORDER ==
    << "0a_raw_ingest", "0b_stage_normalisation", "1_onspd_backbone",
       "2_gb_canonical_streets", "3_open_names_candidates",
       "4_uprn_reinforcement", "5_gb_spatial_fallback", "6_ni_candidates",
       "7_ppd_gap_fill", "8_finalisation" >>

CANDIDATE_TYPES ==
    << "names_postcode_feature", "oli_toid_usrn", "uprn_usrn",
       "spatial_os_open_roads", "osni_gazetteer_direct", "spatial_dfi_highway",
       "ppd_parse_matched", "ppd_parse_unmatched" >>

SOURCE_NAMES ==
    { "onspd", "os_open_usrn", "os_open_names", "os_open_roads", "os_open_uprn",
      "os_open_lids", "nsul", "osni_gazetteer", "dfi_highway", "ppd" }

GbCoreSources ==
    { "onspd", "os_open_usrn", "os_open_names", "os_open_roads", "os_open_uprn",
      "os_open_lids", "nsul" }

BUILD_PROFILES ==
    [ gb_core     |-> GbCoreSources,
      gb_core_ppd |-> GbCoreSources \cup {"ppd"},
      core_ni     |-> GbCoreSources \cup {"osni_gazetteer", "dfi_highway"} ]

\* the source names in the order Python's sorted() gives them
SortedSourceNames ==
    << "dfi_highway", "nsul", "onspd", "os_open_lids", "os_open_names",
       "os_open_roads", "os_open_uprn", "os_open_usrn", "osni_gazetteer", "ppd" >>

SourceRank(s) == CHOOSE i \in DOMAIN SortedSourceNames : SortedSourceNames[i] = s

----------------------------------------------------------------------------
(* meta.ingest_run: written by the ingest commands before any bundle is made. *)
(* Run ids are integers standing for UUIDs in their text order.               *)

IngestRun ==
    [ r \in 1..14 |->
        [ source_name |->
            CASE r = 1 -> "onspd"          [] r = 2 -> "os_open_usrn"
              [] r = 3 -> "os_open_names"  [] r = 4 -> "os_open_roads"
              [] r = 5 -> "os_open_uprn"   [] r = 6 -> "os_open_lids"
              [] r = 7 -> "nsul"           [] r = 8 -> "osni_gazetteer"
              [] r = 9 -> "dfi_highway"    [] r = 10 -> "ppd"
              [] r = 11 -> "ppd"           [] r = 13 -> "dfi_highway"
              [] r = 14 -> "ppd"
              [] OTHER -> "onspd",
          \* run 12 is an onspd ingest that recorded no row
          record_count |-> IF r = 12 THEN 0 ELSE 3,
          \* the ppd run 11 was retrieved before the ppd run 10, and the ppd
          \* run 14 at the time of the ppd run 10
          retrieved_at_utc |-> IF r = 11 THEN 0 ELSE IF r = 14 THEN 10 ELSE r ] ]

\* well-formed UUIDs that meta.ingest_run does not hold
UnknownRunIds == {99}

----------------------------------------------------------------------------
(* Bundle manifests.  source_runs is a Python dict: here a sequence of      *)
(* <<source_name, run_ids>> pairs with distinct names, in insertion order.  *)

Keys(source_runs) == {source_runs[i][1] : i \in DOMAIN source_runs}

Lookup(source_runs, key) ==
    source_runs[CHOOSE i \in DOMAIN source_runs : source_runs[i][1] = key][2]

\* A JSON value of a source_runs slot.  A string is given by the run its UUID
\* stands for, 0 when the string is no UUID; a list item is such a string, or
\* below 0 when the item is no string.
JsonString(uuid) == [type |-> "str", str |-> uuid, list |-> <<>>]

JsonList(items) == [type |-> "list", str |-> 0, list |-> items]

JsonNumber == [type |-> "number", str |-> 0, list |-> <<>>]

\* the loop over source_runs_raw.items() from slot i on: the first
\* ManifestError, or the parsed slots
RECURSIVE ParseSourceRuns(_, _, _)
ParseSourceRuns(source_runs_raw, i, source_runs) ==
    IF i > Len(source_runs_raw) THEN [error |-> NULL, source_runs |-> source_runs]
    ELSE LET source_name == source_runs_raw[i][1]
             run_ids_raw == source_runs_raw[i][2]
             run_ids == IF run_ids_raw.type = "str" THEN <<run_ids_raw.str>>
                        ELSE run_ids_raw.list
             failed(error) == [error |-> error, source_runs |-> <<>>]
         IN IF source_name \notin SOURCE_NAMES
            THEN failed("Unknown source in source_runs")
            ELSE IF run_ids_raw.type = "list" /\ run_ids_raw.list = <<>>
            THEN failed("source_runs list must not be empty")
            ELSE IF run_ids_raw.type = "list" /\ \E k \in DOMAIN run_ids : run_ids[k] < 0
            THEN failed("source_runs values must be UUID strings")
            ELSE IF run_ids_raw.type \notin {"str", "list"}
            THEN failed("source_runs must be a UUID string or non-empty UUID array")
            ELSE IF \E k \in DOMAIN run_ids : run_ids[k] = 0
            THEN failed("Invalid ingest run UUID")
            ELSE ParseSourceRuns(source_runs_raw, i + 1,
                                 Append(source_runs, <<source_name, run_ids>>))

\* run ids are returned sorted
LoadSortingRunIds(payload) ==
    IF payload.build_profile \notin DOMAIN BUILD_PROFILES
    THEN [error |-> "Invalid build_profile", source_runs |-> <<>>]
    ELSE IF payload.source_runs_type # "object"
    THEN [error |-> "Bundle manifest source_runs must be an object", source_runs |-> <<>>]
    ELSE LET parsed == ParseSourceRuns(payload.source_runs, 1, <<>>)
             required == BUILD_PROFILES[payload.build_profile]
         IN IF parsed.error # NULL THEN parsed
            ELSE IF required \ Keys(parsed.source_runs) # {}
            THEN [error |-> "Bundle manifest missing required sources for profile",
                  source_runs |-> <<>>]
            ELSE IF \E source_name \in required :
                       Len(Lookup(parsed.source_runs, source_name)) = 0
            THEN [error |-> "Bundle manifest source_runs must include at least one ingest run id",
                  source_runs |-> <<>>]
            ELSE [error |-> NULL,
                  source_runs |-> [i \in DOMAIN parsed.source_runs |->
                                      <<parsed.source_runs[i][1],
                                        SortInts(parsed.source_runs[i][2])>>]]

\* load_bundle_manifest: the ManifestError it raises, or the source_runs of
\* the BuildBundleManifest it returns
load_bundle_manifest(payload) ==
    IF payload.build_profile \notin DOMAIN BUILD_PROFILES
    THEN [error |-> "Invalid build_profile", source_runs |-> <<>>]
    ELSE IF payload.source_runs_type # "object"
    THEN [error |-> "Bundle manifest source_runs must be an object", source_runs |-> <<>>]
    ELSE LET parsed == ParseSourceRuns(payload.source_runs, 1, <<>>)
             required == BUILD_PROFILES[payload.build_profile]
         IN IF parsed.error # NULL THEN parsed
            ELSE IF required \ Keys(parsed.source_runs) # {}
            THEN [error |-> "Bundle manifest missing required sources for profile",
                  source_runs |-> <<>>]
            ELSE IF \E source_name \in required :
                       Len(Lookup(parsed.source_runs, source_name)) = 0
            THEN [error |-> "Bundle manifest source_runs must include at least one ingest run id",
                  source_runs |-> <<>>]
            ELSE parsed

\* the names sorted, each slot's run ids in the order listed
UnsortedRunIds(source_runs) ==
    LET ks == Keys(source_runs)
        rank == [k \in ks |-> SourceRank(k)]
        ordered == SortBy(ks, rank)
    IN [i \in DOMAIN ordered |-> <<ordered[i], Lookup(source_runs, ordered[i])>>]

\* sorted(normalized_source_runs.keys()) with each slot's run ids sorted
NormalizedSourceRuns(source_runs) ==
    LET ks == Keys(source_runs)
        rank == [k \in ks |-> SourceRank(k)]
        ordered == SortBy(ks, rank)
    IN [i \in DOMAIN ordered |-> <<ordered[i], SortInts(Lookup(source_runs, ordered[i]))>>]

\* _bundle_hash: SHA-256 of the compact JSON of the normalised payload.  The
\* digest is taken to be collision free, so the payload stands for its digest.
bundle_hash(build_profile, source_runs) ==
    [build_profile |-> build_profile, source_runs |-> NormalizedSourceRuns(source_runs)]

\* "v3_" + bundle_hash[:12]; distinct digests are taken to differ in 12 hex digits
dataset_version_from_bundle_hash(h) == <<"v3", h>>

\* every character of "v3_<12 hex>" is in [A-Za-z0-9_], so re.sub changes nothing
safe_version_suffix(dataset_version) == dataset_version

----------------------------------------------------------------------------
(* The database.  build_bundle and build_run are keyed by their uuid4 ids,  *)
(* modelled as fresh integers: row i of the sequence is the row with id i.  *)

EmptyDb ==
    [ build_bundle          |-> <<>>,  \* [build_profile, bundle_hash, status]
      build_bundle_source   |-> {},    \* [bundle_id, source_name, ingest_run_id]
      build_run             |-> <<>>,
      build_pass_checkpoint |-> {},    \* <<build_run_id, pass_name>>
      \* stage tables, every row scoped by build_run_id
      stage_onspd_postcode  |-> {}, stage_streets_usrn_input |-> {},
      stage_open_names_road_feature |-> {}, stage_open_roads_segment |-> {},
      stage_uprn_point      |-> {}, stage_oli_toid_usrn |-> {},
      stage_oli_uprn_usrn   |-> {}, stage_oli_identifier_pair |-> {},
      stage_nsul_uprn_postcode |-> {}, stage_osni_street_point |-> {},
      stage_dfi_road_segment |-> {}, stage_ppd_parsed_address |-> {},
      \* run outputs, every row scoped by produced_build_run_id
      postcodes |-> {}, postcodes_meta |-> {}, streets_usrn |-> {},
      postcode_street_candidates |-> {}, postcode_street_candidate_lineage |-> {},
      postcode_streets_final |-> {}, postcode_streets_final_candidate |-> {},
      postcode_streets_final_source |-> {}, unit_index |-> {},
      \* api.postcode_street_lookup__<v> and api.postcode_lookup__<v>, by version
      api_tables |-> {},
      \* the views api.postcode_lookup and api.postcode_street_lookup
      api_views |-> {},
      canonical_hash |-> {}, dataset_publication |-> {},
      \* now(): the clock the statements read; a publication is later than
      \* every time stored before it, so the clock advances when one starts
      now |-> 1 ]

Result(cmd, status, id, error) ==
    [cmd |-> cmd, status |-> status, id |-> id, error |-> error]

\* BuildBundleResult, kept with the manifest it answers
BundleResult(manifest, status, bundle_id, h) ==
    [cmd |-> "bundle_create", status |-> status, id |-> bundle_id, error |-> NULL,
     bundle_hash |-> h, manifest |-> manifest]

\* the BuildError create_build_bundle raised for a manifest
BundleError(manifest, error) ==
    [cmd |-> "bundle_create", status |-> "error", id |-> 0, error |-> error,
     manifest |-> manifest]

----------------------------------------------------------------------------
(* create_build_bundle *)

\* the lookup restricted to bundles that have been built
ExistingBuiltBundles(d, build_profile, h) ==
    { b \in DOMAIN d.build_bundle :
        /\ d.build_bundle[b].build_profile = build_profile
        /\ d.build_bundle[b].bundle_hash = h
        /\ d.build_bundle[b].status = "built" }

\* the SELECT of lines 175-191
ExistingBundles(d, build_profile, h) ==
    { b \in DOMAIN d.build_bundle :
        /\ d.build_bundle[b].build_profile = build_profile
        /\ d.build_bundle[b].bundle_hash = h }

\* the check of lines 200-227 for one required source; "ok" or the error raised
SourceSlotCheck(manifest, source_name) ==
    LET run_ids == Lookup(manifest.source_runs, source_name)
        bad_card == IF source_name = "ppd" THEN Len(run_ids) = 0 ELSE Len(run_ids) # 1
    IN IF bad_card THEN "cardinality"
       ELSE IF \E i \in DOMAIN run_ids : run_ids[i] \notin DOMAIN IngestRun
            THEN "unknown ingest run"
       ELSE IF \E i \in DOMAIN run_ids : IngestRun[run_ids[i]].source_name # source_name
            THEN "ingest run/source mismatch"
       ELSE "ok"

\* the error create_build_bundle raises for a manifest it has not stored, or "ok"
BundleValidation(manifest) ==
    LET required_sources == BUILD_PROFILES[manifest.build_profile]
    IN IF ~(required_sources \subseteq Keys(manifest.source_runs))
       THEN "missing required sources"
       ELSE IF \E s \in required_sources : SourceSlotCheck(manifest, s) # "ok"
            THEN LET s == CHOOSE s \in required_sources :
                              /\ SourceSlotCheck(manifest, s) # "ok"
                              /\ \A t \in required_sources :
                                    SourceSlotCheck(manifest, t) # "ok"
                                        => SourceRank(s) <= SourceRank(t)
                 IN SourceSlotCheck(manifest, s)
            ELSE "ok"

\* the rows of lines 244-255: one per listed run of every slot of the manifest
BundleSourceRows(bundle_id, manifest) ==
    UNION { { [bundle_id |-> bundle_id,
               source_name |-> manifest.source_runs[i][1],
               ingest_run_id |-> manifest.source_runs[i][2][j]] :
                 j \in DOMAIN manifest.source_runs[i][2] } :
            i \in DOMAIN manifest.source_runs }

\* create_build_bundle followed by the command's commit; a raise leaves the
\* connection to be closed uncommitted
create_build_bundle(manifest) ==
    LET h == bundle_hash(manifest.build_profile, manifest.source_runs)
        existing == ExistingBundles(db, manifest.build_profile, h)
        verdict == BundleValidation(manifest)
        bundle_id == Len(db.build_bundle) + 1
    IN IF existing # {}
       THEN /\ outcome' = BundleResult(manifest, "existing", CHOOSE b \in existing : TRUE, h)
            /\ UNCHANGED db
       ELSE IF verdict # "ok"
       THEN /\ outcome' = BundleError(manifest, verdict)
            /\ UNCHANGED db
       ELSE /\ db' = [db EXCEPT
                        !.build_bundle = Append(@, [build_profile |-> manifest.build_profile,
                                                    bundle_hash |-> h,
                                                    status |-> "created"]),
                        !.build_bundle_source = @ \cup BundleSourceRows(bundle_id, manifest)]
            /\ outcome' = BundleResult(manifest, "created", bundle_id, h)

----------------------------------------------------------------------------
(* Text.  A postcode is a sequence of one-character strings; Alphabet lists *)
(* the characters in code-point order, which is the order of COLLATE "C".   *)

Alphabet ==
    << " ", "-", "0", "1", "2", "3", "4", "5", "6", "7", "8", "9",
       "A", "B", "C", "D", "E", "F", "G", "H", "I", "J", "K", "L", "M",
       "N", "O", "P", "Q", "R", "S", "T", "U", "V", "W", "X", "Y", "Z",
       "a", "b", "c", "d", "e", "f", "g", "h", "i", "j", "k", "l", "m",
       "n", "o", "p", "q", "r", "s", "t", "u", "v", "w", "x", "y", "z" >>

Code(c) == CHOOSE i \in DOMAIN Alphabet : Alphabet[i] = c

Digits == {Alphabet[i] : i \in 3..12}
UpperLetters == {Alphabet[i] : i \in 13..38}
LowerLetters == {Alphabet[i] : i \in 39..64}

\* str.upper() of one character
UpperChar(c) == IF c \in LowerLetters THEN Alphabet[Code(c) - 26] ELSE c

\* a < b for character sequences, code point by code point
SeqLess(a, b) ==
    \E i \in 1..(Len(a) + 1) :
        /\ i <= Len(b)
        /\ \A j \in 1..(i - 1) : a[j] = b[j]
        /\ (i = Len(a) + 1 \/ Code(a[i]) < Code(b[i]))

\* None for a text held as a character sequence; str(None) is never taken,
\* and the empty text normalises to None as well
NoText == <<>>

\* postcode_norm: drop every non-alphanumeric character, upper-case; None if empty
postcode_norm(value) ==
    LET kept == SelectSeq(value, LAMBDA c : c \in Digits \cup UpperLetters \cup LowerLetters)
        cleaned == [i \in DOMAIN kept |-> UpperChar(kept[i])]
    IN IF value = NoText \/ cleaned = <<>> THEN NoText ELSE cleaned

\* the space is put before the last two characters
DisplayWithShortInward(value) ==
    LET normalized == postcode_norm(value)
    IN IF normalized = NoText THEN NoText
       ELSE IF Len(normalized) <= 3 THEN normalized
       ELSE SubSeq(normalized, 1, Len(normalized) - 2) \o <<" ">>
                \o SubSeq(normalized, Len(normalized) - 1, Len(normalized))

\* postcode_display: the normalised form with one space before its last three characters
postcode_display(value) ==
    LET normalized == postcode_norm(value)
    IN IF normalized = NoText THEN NoText
       ELSE IF Len(normalized) <= 3 THEN normalized
       ELSE SubSeq(normalized, 1, Len(normalized) - 3) \o <<" ">>
                \o SubSeq(normalized, Len(normalized) - 2, Len(normalized))

\* SQL replace(postcode, ' ', '')
StripSpaces(postcode) == SelectSeq(postcode, LAMBDA c : c # " ")

\* the elements of S as a sequence in the order of the strict total order Less
OrderBy(S, Less(_, _)) ==
    LET ranked == {<<Cardinality({y \in S : Less(y, x)}), x>> : x \in S}
    IN  [i \in 1..Cardinality(S) |-> (CHOOSE p \in ranked : p[1] = i - 1)[2]]

----------------------------------------------------------------------------
(* Strings compared by the program: street names, feature and segment ids, *)
(* in the order COLLATE "C" gives them.                                     *)

SortedStrings ==
    << "FALLS ROAD", "Falls Road", "HIGH STREET", "High Street", "MAIN ROAD",
       "MILL LANE", "Main Road", "Mill Lane", "PARK VIEW", "Park View",
       "SHORE ROAD", "Shore Road", "d1", "d2", "d3", "f1", "f2", "f3", "f4",
       "h1", "h2", "o1", "o2", "s1", "s2", "s3" >>

StrRank(x) == CHOOSE i \in DOMAIN SortedStrings : SortedStrings[i] = x

StrLess(x, y) == StrRank(x) < StrRank(y)

\* street_casefold of the street names of this data set (no alias applies),
\* which is also SQL upper() of them
street_casefold(name) ==
    CASE name = "Falls Road" -> "FALLS ROAD"   [] name = "High Street" -> "HIGH STREET"
      [] name = "Main Road" -> "MAIN ROAD"     [] name = "Mill Lane" -> "MILL LANE"
      [] name = "Park View" -> "PARK VIEW"     [] name = "Shore Road" -> "SHORE ROAD"
      [] OTHER -> name

NO_USRN == 0    \* SQL NULL in an integer column

----------------------------------------------------------------------------
(* The raw rows of the ingest runs, in source_row_num order, with the       *)
(* logical fields already resolved through the schema's field_map.  UPRNs  *)
(* and TOIDs are only ever compared for equality and are kept as text.      *)

RawOnspd ==
    << [postcode |-> <<"m", "1", " ", "1", "a", "e">>, country |-> "E92000001"],
       [postcode |-> <<"M", "2", "2", "B", "B">>,      country |-> "E92000001"],
       [postcode |-> <<"B", "T", "1", " ", "1", "A", "A">>, country |-> "N92000002"],
       [postcode |-> <<"B", "T", "2", " ", "2", "B", "B">>, country |-> "N92000002"],
       [postcode |-> <<" ", "-">>,                     country |-> "E92000001"] >>

PcM1 == <<"M", "1", "1", "A", "E">>
PcM2 == <<"M", "2", " ", "2", "B", "B">>
PcBT1 == <<"B", "T", "1", "1", "A", "A">>
PcBT2 == <<"b", "t", "2", " ", "2", "b", "b">>
PcZZ == <<"Z", "Z", "9", " ", "9", "Z", "Z">>

RawUsrn ==
    << [usrn |-> 100, street_name |-> "High Street"],
       [usrn |-> 200, street_name |-> "Main Road"] >>

RawOpenNames ==
    << [feature_id |-> "f1", street_name |-> "High Street", postcode |-> PcM1, toid |-> "T1"],
       [feature_id |-> "f2", street_name |-> "Mill Lane",   postcode |-> PcM1, toid |-> NULL],
       [feature_id |-> "f3", street_name |-> "Main Road",   postcode |-> PcM2, toid |-> "T2"],
       [feature_id |-> "f4", street_name |-> "Park View",   postcode |-> PcZZ, toid |-> "T1"] >>

RawOpenRoads ==
    << [segment_id |-> "s3", road_name |-> "Mill Lane",   postcode |-> PcM2, usrn |-> NO_USRN],
       [segment_id |-> "s2", road_name |-> "Main Road",   postcode |-> PcM2, usrn |-> 200],
       [segment_id |-> "s1", road_name |-> "High Street", postcode |-> PcM1, usrn |-> 100] >>

RawUprn ==
    << [uprn |-> "u1", postcode |-> PcM1], [uprn |-> "u2", postcode |-> PcM1] >>

\* linked identifiers after _infer_lids_relation
RawLids ==
    << [relation |-> "toid_usrn", id_1 |-> "T1", id_2 |-> 100],
       [relation |-> "toid_usrn", id_1 |-> "T1", id_2 |-> 300],
       [relation |-> "uprn_usrn", id_1 |-> "u1", id_2 |-> 100],
       [relation |-> "uprn_usrn", id_1 |-> "u2", id_2 |-> 100],
       [relation |-> "toid_usrn", id_1 |-> "T1", id_2 |-> 100] >>

RawNsul ==
    << [uprn |-> "u1", postcode |-> PcM1], [uprn |-> "u2", postcode |-> PcM1],
       [uprn |-> "u3", postcode |-> NoText] >>

RawOsni ==
    << [feature_id |-> "o1", street_name |-> "Falls Road", postcode |-> PcBT1] >>

RawDfi ==
    << [segment_id |-> "d3", street_name |-> "Falls Road", postcode |-> PcBT2],
       [segment_id |-> "d2", street_name |-> "Shore Road", postcode |-> PcBT2],
       [segment_id |-> "d1", street_name |-> "Falls Road", postcode |-> PcBT1] >>

RawPpd(ingest_run_id) ==
    IF ingest_run_id = 10
    THEN << [row_hash |-> "h1", postcode |-> PcM2, street |-> "Main Road", house_number |-> "5"],
            [row_hash |-> "h2", postcode |-> PcM1, street |-> "Park View", house_number |-> NULL] >>
    ELSE IF ingest_run_id = 14
    THEN << [row_hash |-> "h1", postcode |-> PcM2, street |-> "Mill Lane", house_number |-> "9"],
            [row_hash |-> "h2", postcode |-> PcM1, street |-> NULL, house_number |-> "3"],
            [row_hash |-> "h1", postcode |-> PcM1, street |-> "Main Road", house_number |-> "11"] >>
    ELSE << [row_hash |-> "h1", postcode |-> PcM2, street |-> "Main Road", house_number |-> "7"] >>

----------------------------------------------------------------------------
(* What a pass handler leaves: the connection's view, the sequences, and    *)
(* the error it raised (NULL when it returned).                             *)

Handled(d, sq, error) == [d |-> d, sq |-> sq, error |-> error]

\* source_runs as _load_bundle returns it: slot -> sorted tuple of run ids
BundleSourceRuns(d, bundle_id) ==
    LET rows == {x \in d.build_bundle_source : x.bundle_id = bundle_id}
        slots == {x.source_name : x \in rows}
    IN [s \in slots |->
          SortBy({x.ingest_run_id : x \in {y \in rows : y.source_name = s}},
                 [r \in {x.ingest_run_id : x \in rows} |-> r])]

\* the check of _pass_0a_raw_ingest for one listed run: "ok" or what it raises
Pass0aCheck(source_name, ingest_run_id) ==
    IF ingest_run_id \notin DOMAIN IngestRun
    THEN "Pass 0a failed: ingest run missing in metadata"
    ELSE IF IngestRun[ingest_run_id].source_name # source_name
    THEN "Pass 0a failed: ingest run/source mismatch"
    ELSE IF IngestRun[ingest_run_id].record_count <= 0
    THEN "Pass 0a failed: source has no recorded rows"
    ELSE "ok"

\* _pass_0a_raw_ingest: validates the bundle's runs, slots in sorted order,
\* and writes nothing
pass_0a_raw_ingest(d, sq, build_run_id, source_runs) ==
    LET listed == UNION { {<<s, i>> : i \in DOMAIN source_runs[s]} : s \in DOMAIN source_runs }
        bad == {x \in listed : Pass0aCheck(x[1], source_runs[x[1]][x[2]]) # "ok"}
        Before(x, y) == \/ SourceRank(x[1]) < SourceRank(y[1])
                        \/ (x[1] = y[1] /\ x[2] < y[2])
        first == CHOOSE x \in bad : \A y \in bad \ {x} : Before(x, y)
    IN IF bad = {} THEN Handled(d, sq, NULL)
       ELSE Handled(d, sq, Pass0aCheck(first[1], source_runs[first[1]][first[2]]))

----------------------------------------------------------------------------
(* Pass 0b: stage normalisation *)

StageTables ==
    { "stage_ppd_parsed_address", "stage_dfi_road_segment", "stage_osni_street_point",
      "stage_nsul_uprn_postcode", "stage_oli_uprn_usrn", "stage_oli_toid_usrn",
      "stage_oli_identifier_pair", "stage_uprn_point", "stage_open_roads_segment",
      "stage_open_names_road_feature", "stage_streets_usrn_input", "stage_onspd_postcode" }

\* _stage_cleanup: DELETE ... WHERE build_run_id = %s on every stage table
stage_cleanup(d, build_run_id) ==
    [t \in DOMAIN d |->
        IF t \in StageTables THEN {x \in d[t] : x.build_run_id # build_run_id} ELSE d[t]]

onspd_country_mapping(value) ==
    CASE value = "E92000001" -> [country_iso2 |-> "GB", subdivision_code |-> "GB-ENG"]
      [] value = "S92000003" -> [country_iso2 |-> "GB", subdivision_code |-> "GB-SCT"]
      [] value = "W92000004" -> [country_iso2 |-> "GB", subdivision_code |-> "GB-WLS"]
      [] value = "N92000002" -> [country_iso2 |-> "GB", subdivision_code |-> "GB-NIR"]
      [] OTHER -> [country_iso2 |-> "GB", subdivision_code |-> NULL]

\* the raw rows of a source's ingest run (raw.<source>_row ORDER BY source_row_num)
RawRows(source_name, ingest_run_id) ==
    CASE source_name = "onspd" -> IF ingest_run_id = 1 THEN RawOnspd ELSE <<>>
      [] source_name = "os_open_usrn" -> RawUsrn
      [] source_name = "os_open_names" -> RawOpenNames
      [] source_name = "os_open_roads" -> RawOpenRoads
      [] source_name = "os_open_uprn" -> RawUprn
      [] source_name = "os_open_lids" -> RawLids
      [] source_name = "nsul" -> RawNsul
      [] source_name = "osni_gazetteer" -> RawOsni
      [] source_name = "dfi_highway" -> RawDfi
      [] source_name = "ppd" -> RawPpd(ingest_run_id)

\* rows inserted one by one with ON CONFLICT (key) DO UPDATE: the last row of
\* each key is the one that stays
LastOfKey(rows, Key(_)) ==
    {rows[i] : i \in {j \in DOMAIN rows : \A k \in DOMAIN rows : Key(rows[k]) = Key(rows[j]) => k <= j}}

\* ON CONFLICT (key) DO NOTHING: the first row of each key stays
FirstOfKey(rows, Key(_)) ==
    {rows[i] : i \in {j \in DOMAIN rows : \A k \in DOMAIN rows : Key(rows[k]) = Key(rows[j]) => k >= j}}

\* the rows of a raw sequence that pass Keep, each mapped by Row
Staged(raw, Keep(_), Row(_)) ==
    LET kept == SelectSeq(raw, Keep) IN [i \in DOMAIN kept |-> Row(kept[i])]

populate_stage_onspd(build_run_id, ingest_run_id) ==
    Range(Staged(RawRows("onspd", ingest_run_id),
        LAMBDA row : postcode_norm(row.postcode) # NoText,
        LAMBDA row : [build_run_id |-> build_run_id,
                      postcode_norm |-> postcode_norm(row.postcode),
                      postcode_display |-> postcode_display(row.postcode),
                      country_iso2 |-> onspd_country_mapping(row.country).country_iso2,
                      subdivision_code |-> onspd_country_mapping(row.country).subdivision_code,
                      onspd_run_id |-> ingest_run_id]))

populate_stage_usrn(build_run_id, ingest_run_id) ==
    LastOfKey(Staged(RawRows("os_open_usrn", ingest_run_id),
        LAMBDA row : TRUE,
        LAMBDA row : [build_run_id |-> build_run_id, usrn |-> row.usrn,
                      street_name |-> row.street_name,
                      street_name_casefolded |-> street_casefold(row.street_name),
                      usrn_run_id |-> ingest_run_id]),
      LAMBDA x : x.usrn)

populate_stage_open_names(build_run_id, ingest_run_id) ==
    LastOfKey(Staged(RawRows("os_open_names", ingest_run_id),
        LAMBDA row : TRUE,
        LAMBDA row : [build_run_id |-> build_run_id, feature_id |-> row.feature_id,
                      toid |-> row.toid, postcode_norm |-> postcode_norm(row.postcode),
                      street_name_raw |-> row.street_name,
                      street_name_casefolded |-> street_casefold(row.street_name),
                      ingest_run_id |-> ingest_run_id]),
      LAMBDA x : x.feature_id)

populate_stage_open_roads(build_run_id, ingest_run_id) ==
    LastOfKey(Staged(RawRows("os_open_roads", ingest_run_id),
        LAMBDA row : TRUE,
        LAMBDA row : [build_run_id |-> build_run_id, segment_id |-> row.segment_id,
                      postcode_norm |-> postcode_norm(row.postcode), usrn |-> row.usrn,
                      road_name |-> row.road_name,
                      road_name_casefolded |-> street_casefold(row.road_name),
                      ingest_run_id |-> ingest_run_id]),
      LAMBDA x : x.segment_id)

populate_stage_open_uprn(build_run_id, ingest_run_id) ==
    LastOfKey(Staged(RawRows("os_open_uprn", ingest_run_id),
        LAMBDA row : TRUE,
        LAMBDA row : [build_run_id |-> build_run_id, uprn |-> row.uprn,
                      postcode_norm |-> postcode_norm(row.postcode),
                      ingest_run_id |-> ingest_run_id]),
      LAMBDA x : x.uprn)

\* _populate_stage_oli fills three tables, each ON CONFLICT DO NOTHING
populate_stage_oli_pair(build_run_id, ingest_run_id) ==
    FirstOfKey(Staged(RawRows("os_open_lids", ingest_run_id),
        LAMBDA row : TRUE,
        LAMBDA row : [build_run_id |-> build_run_id, relation_type |-> row.relation,
                      id_1 |-> row.id_1, id_2 |-> row.id_2,
                      ingest_run_id |-> ingest_run_id]),
      LAMBDA x : x)

populate_stage_oli_toid_usrn(build_run_id, ingest_run_id) ==
    FirstOfKey(Staged(RawRows("os_open_lids", ingest_run_id),
        LAMBDA row : row.relation = "toid_usrn",
        LAMBDA row : [build_run_id |-> build_run_id, toid |-> row.id_1,
                      usrn |-> row.id_2, ingest_run_id |-> ingest_run_id]),
      LAMBDA x : x)

populate_stage_oli_uprn_usrn(build_run_id, ingest_run_id) ==
    FirstOfKey(Staged(RawRows("os_open_lids", ingest_run_id),
        LAMBDA row : row.relation = "uprn_usrn",
        LAMBDA row : [build_run_id |-> build_run_id, uprn |-> row.id_1,
                      usrn |-> row.id_2, ingest_run_id |-> ingest_run_id]),
      LAMBDA x : x)

populate_stage_nsul(build_run_id, ingest_run_id) ==
    FirstOfKey(Staged(RawRows("nsul", ingest_run_id),
        LAMBDA row : postcode_norm(row.postcode) # NoText,
        LAMBDA row : [build_run_id |-> build_run_id, uprn |-> row.uprn,
                      postcode_norm |-> postcode_norm(row.postcode),
                      ingest_run_id |-> ingest_run_id]),
      LAMBDA x : x)

populate_stage_osni(build_run_id, ingest_run_id) ==
    LastOfKey(Staged(RawRows("osni_gazetteer", ingest_run_id),
        LAMBDA row : TRUE,
        LAMBDA row : [build_run_id |-> build_run_id, feature_id |-> row.feature_id,
                      postcode_norm |-> postcode_norm(row.postcode),
                      street_name_raw |-> row.street_name,
                      street_name_casefolded |-> street_casefold(row.street_name),
                      ingest_run_id |-> ingest_run_id]),
      LAMBDA x : x.feature_id)

populate_stage_dfi(build_run_id, ingest_run_id) ==
    LastOfKey(Staged(RawRows("dfi_highway", ingest_run_id),
        LAMBDA row : TRUE,
        LAMBDA row : [build_run_id |-> build_run_id, segment_id |-> row.segment_id,
                      postcode_norm |-> postcode_norm(row.postcode),
                      street_name_raw |-> row.street_name,
                      street_name_casefolded |-> street_casefold(row.street_name),
                      ingest_run_id |-> ingest_run_id]),
      LAMBDA x : x.segment_id)

\* ORDER BY run_id ASC alone
OrderedByRunId(run_ids) ==
    OrderBy(Range(run_ids), LAMBDA a, b : a < b)

\* _ordered_run_ids: ORDER BY retrieved_at_utc ASC, run_id ASC
ordered_run_ids(run_ids) ==
    OrderBy(Range(run_ids),
        LAMBDA a, b : \/ IngestRun[a].retrieved_at_utc < IngestRun[b].retrieved_at_utc
                      \/ /\ IngestRun[a].retrieved_at_utc = IngestRun[b].retrieved_at_utc
                         /\ a < b)

RECURSIVE PpdRowsInOrder(_, _)
\* the staged ppd rows of the runs of `ordered`, in the order they are inserted
PpdRowsInOrder(build_run_id, ordered) ==
    IF ordered = <<>> THEN <<>>
    ELSE Staged(RawRows("ppd", Head(ordered)),
            LAMBDA row : /\ row.row_hash # NULL
                         /\ row.street # NULL
                         /\ postcode_norm(row.postcode) # NoText,
            LAMBDA row : [build_run_id |-> build_run_id, row_hash |-> row.row_hash,
                          postcode_norm |-> postcode_norm(row.postcode),
                          house_number |-> row.house_number,
                          street_token_raw |-> row.street,
                          street_token_casefolded |-> street_casefold(row.street),
                          ingest_run_id |-> Head(ordered)])
         \o PpdRowsInOrder(build_run_id, Tail(ordered))

populate_stage_ppd(build_run_id, ppd_run_ids) ==
    LastOfKey(PpdRowsInOrder(build_run_id, ordered_run_ids(ppd_run_ids)),
              LAMBDA x : x.row_hash)

\* _pass_0b_stage_normalisation: clean the run's stage rows, then stage every
\* source the bundle carries; an ingest run without raw rows raises
pass_0b_stage_normalisation(d, sq, build_run_id, source_runs) ==
    LET has(s) == s \in DOMAIN source_runs
        one(s) == source_runs[s][1]
        fill(s, rows) == IF has(s) THEN rows ELSE {}
        cleaned == stage_cleanup(d, build_run_id)
        empty == {s \in DOMAIN source_runs :
                    \E i \in DOMAIN source_runs[s] : RawRows(s, source_runs[s][i]) = <<>>}
        staged == [cleaned EXCEPT
            !.stage_onspd_postcode = @ \cup fill("onspd", populate_stage_onspd(build_run_id, one("onspd"))),
            !.stage_streets_usrn_input = @ \cup fill("os_open_usrn", populate_stage_usrn(build_run_id, one("os_open_usrn"))),
            !.stage_open_names_road_feature = @ \cup fill("os_open_names", populate_stage_open_names(build_run_id, one("os_open_names"))),
            !.stage_open_roads_segment = @ \cup fill("os_open_roads", populate_stage_open_roads(build_run_id, one("os_open_roads"))),
            !.stage_uprn_point = @ \cup fill("os_open_uprn", populate_stage_open_uprn(build_run_id, one("os_open_uprn"))),
            !.stage_oli_toid_usrn = @ \cup fill("os_open_lids", populate_stage_oli_toid_usrn(build_run_id, one("os_open_lids"))),
            !.stage_oli_uprn_usrn = @ \cup fill("os_open_lids", populate_stage_oli_uprn_usrn(build_run_id, one("os_open_lids"))),
            !.stage_oli_identifier_pair = @ \cup fill("os_open_lids", populate_stage_oli_pair(build_run_id, one("os_open_lids"))),
            !.stage_nsul_uprn_postcode = @ \cup fill("nsul", populate_stage_nsul(build_run_id, one("nsul"))),
            !.stage_osni_street_point = @ \cup fill("osni_gazetteer", populate_stage_osni(build_run_id, one("osni_gazetteer"))),
            !.stage_dfi_road_segment = @ \cup fill("dfi_highway", populate_stage_dfi(build_run_id, one("dfi_highway"))),
            !.stage_ppd_parsed_address = @ \cup fill("ppd", populate_stage_ppd(build_run_id, source_runs["ppd"]))]
    IN IF \E s \in DOMAIN source_runs \ {"ppd"} : Len(source_runs[s]) # 1
       THEN Handled(cleaned, sq, "Source requires exactly one ingest run in bundle")
       ELSE IF empty # {}
       THEN Handled(cleaned, sq, "Raw source is empty; cannot stage-normalise")
       ELSE Handled(staged, sq, NULL)

----------------------------------------------------------------------------
(* Rows of the run outputs *)

RunRows(table, build_run_id) == {x \in table : x.produced_build_run_id = build_run_id}

StageRows(table, build_run_id) == {x \in table : x.build_run_id = build_run_id}

\* a jsonb object of the evidence_json column; a key that is absent reads as NULL
Evidence(feature_id, toid, usrn, uprn_count, segment_id, house_number) ==
    [feature_id |-> feature_id, toid |-> toid, usrn |-> usrn,
     uprn_count |-> uprn_count, segment_id |-> segment_id, house_number |-> house_number]

\* the text of evidence_ref: kind || id, kind || n || '_uprns', or
\* 'ppd:row:' || md5(postcode | hn | id), the md5 standing for its argument
EvidenceRef(kind, id, n, hn) == [kind |-> kind, id |-> id, n |-> n, hn |-> hn]

\* rows inserted in the order of `ordered`, each taking the next candidate_id
InsertCandidates(d, sq, ordered) ==
    Handled(
        [d EXCEPT !.postcode_street_candidates =
            @ \cup {[ordered[i] EXCEPT !.candidate_id = sq.candidate_id + i] : i \in DOMAIN ordered}],
        [sq EXCEPT !.candidate_id = @ + Len(ordered)],
        NULL)

----------------------------------------------------------------------------
(* Passes 1 to 4 *)

pass_1_onspd_backbone(d, sq, build_run_id) ==
    LET staged == StageRows(d.stage_onspd_postcode, build_run_id)
    IN Handled(
        [d EXCEPT
            !.postcodes = @ \cup
                {[produced_build_run_id |-> build_run_id, postcode |-> x.postcode_display,
                  country_iso2 |-> x.country_iso2, subdivision_code |-> x.subdivision_code,
                  multi_street |-> NULL, onspd_run_id |-> x.onspd_run_id] : x \in staged},
            !.postcodes_meta = @ \cup
                {[produced_build_run_id |-> build_run_id, postcode |-> x.postcode_display,
                  meta_jsonb |-> [postcode_norm |-> x.postcode_norm,
                                  country_iso2 |-> x.country_iso2,
                                  subdivision_code |-> x.subdivision_code],
                  onspd_run_id |-> x.onspd_run_id] : x \in staged}],
        sq, NULL)

\* the names of a usrn are ranked by name alone, whatever their counts
InferredUsrnByNameOnly(d, build_run_id) ==
    LET names == {n \in StageRows(d.stage_open_names_road_feature, build_run_id) : n.toid # NULL}
        oli == StageRows(d.stage_oli_toid_usrn, build_run_id)
        joined == {<<n, o>> \in names \X oli : o.toid = n.toid}
        groups == {[usrn |-> j[2].usrn, street_name |-> j[1].street_name_raw,
                    street_name_casefolded |-> j[1].street_name_casefolded] : j \in joined}
        members(g) == {j \in joined : /\ j[2].usrn = g.usrn
                                      /\ j[1].street_name_raw = g.street_name
                                      /\ j[1].street_name_casefolded = g.street_name_casefolded}
        Before(g, h) ==
            \/ StrLess(g.street_name_casefolded, h.street_name_casefolded)
            \/ /\ g.street_name_casefolded = h.street_name_casefolded
               /\ StrLess(g.street_name, h.street_name)
        first == {g \in groups : \A h \in groups : (h.usrn = g.usrn /\ h # g) => Before(g, h)}
    IN {[usrn |-> g.usrn, street_name |-> g.street_name,
         street_name_casefolded |-> g.street_name_casefolded,
         usrn_run_id |-> CHOOSE r \in {j[2].ingest_run_id : j \in members(g)} :
                            \A q \in {j[2].ingest_run_id : j \in members(g)} : r <= q] : g \in first}

\* the inferred_usrn CTE: per usrn the best supported Open Names street name
InferredUsrn(d, build_run_id) ==
    LET names == {n \in StageRows(d.stage_open_names_road_feature, build_run_id) : n.toid # NULL}
        oli == StageRows(d.stage_oli_toid_usrn, build_run_id)
        joined == {<<n, o>> \in names \X oli : o.toid = n.toid}
        groups == {[usrn |-> j[2].usrn, street_name |-> j[1].street_name_raw,
                    street_name_casefolded |-> j[1].street_name_casefolded] : j \in joined}
        members(g) == {j \in joined : /\ j[2].usrn = g.usrn
                                      /\ j[1].street_name_raw = g.street_name
                                      /\ j[1].street_name_casefolded = g.street_name_casefolded}
        Before(g, h) ==
            \/ Cardinality(members(g)) > Cardinality(members(h))
            \/ /\ Cardinality(members(g)) = Cardinality(members(h))
               /\ \/ StrLess(g.street_name_casefolded, h.street_name_casefolded)
                  \/ /\ g.street_name_casefolded = h.street_name_casefolded
                     /\ StrLess(g.street_name, h.street_name)
        first == {g \in groups : \A h \in groups : (h.usrn = g.usrn /\ h # g) => Before(g, h)}
    IN {[usrn |-> g.usrn, street_name |-> g.street_name,
         street_name_casefolded |-> g.street_name_casefolded,
         usrn_run_id |-> CHOOSE r \in {j[2].ingest_run_id : j \in members(g)} :
                            \A q \in {j[2].ingest_run_id : j \in members(g)} : r <= q] : g \in first}

pass_2_gb_canonical_streets(d, sq, build_run_id) ==
    LET direct_usrn == {[usrn |-> x.usrn, street_name |-> x.street_name,
                         street_name_casefolded |-> x.street_name_casefolded,
                         usrn_run_id |-> x.usrn_run_id] :
                            x \in StageRows(d.stage_streets_usrn_input, build_run_id)}
        combined == direct_usrn \cup
            {i \in InferredUsrn(d, build_run_id) : ~ \E x \in direct_usrn : x.usrn = i.usrn}
    IN Handled(
        [d EXCEPT !.streets_usrn = @ \cup
            {[produced_build_run_id |-> build_run_id, usrn |-> x.usrn,
              street_name |-> x.street_name,
              street_name_casefolded |-> x.street_name_casefolded,
              usrn_run_id |-> x.usrn_run_id] : x \in combined}],
        sq, NULL)

\* the base rows of pass 3, in insertion order (ORDER BY feature_id)
Pass3BaseRows(d, build_run_id) ==
    LET joined == {<<n, p>> \in StageRows(d.stage_open_names_road_feature, build_run_id)
                                \X RunRows(d.postcodes, build_run_id) :
                        StripSpaces(p.postcode) = n.postcode_norm}
        ordered == OrderBy(joined, LAMBDA a, b : StrLess(a[1].feature_id, b[1].feature_id))
    IN [i \in DOMAIN ordered |->
          [candidate_id |-> 0, produced_build_run_id |-> build_run_id,
           postcode |-> ordered[i][2].postcode,
           street_name_raw |-> ordered[i][1].street_name_raw,
           street_name_canonical |-> ordered[i][1].street_name_casefolded,
           usrn |-> NO_USRN, candidate_type |-> "names_postcode_feature",
           confidence |-> "medium",
           evidence_ref |-> EvidenceRef("open_names:feature:", ordered[i][1].feature_id, 0, NULL),
           source_name |-> "os_open_names", ingest_run_id |-> ordered[i][1].ingest_run_id,
           evidence_json |-> Evidence(ordered[i][1].feature_id, ordered[i][1].toid,
                                      NO_USRN, 0, NULL, NULL)]]

\* promotion_rows of pass 3 (ORDER BY parent.candidate_id, oli.usrn)
PromotionRows(d, build_run_id) ==
    LET parents == {c \in RunRows(d.postcode_street_candidates, build_run_id) :
                        /\ c.candidate_type = "names_postcode_feature"
                        /\ c.evidence_json.toid # NULL}
        joined == {<<c, o>> \in parents \X StageRows(d.stage_oli_toid_usrn, build_run_id) :
                        o.toid = c.evidence_json.toid}
    IN OrderBy(joined, LAMBDA a, b :
            \/ a[1].candidate_id < b[1].candidate_id
            \/ (a[1].candidate_id = b[1].candidate_id /\ a[2].usrn < b[2].usrn))

\* the edge with parent and child exchanged
LineageEdgeReversed(parent_candidate_id, child_candidate_id, build_run_id) ==
    [parent_candidate_id |-> child_candidate_id,
     child_candidate_id |-> parent_candidate_id,
     relation_type |-> "promotion_toid_usrn",
     produced_build_run_id |-> build_run_id]

\* the row pass 3 inserts into postcode_street_candidate_lineage
LineageEdge(parent_candidate_id, child_candidate_id, build_run_id) ==
    [parent_candidate_id |-> parent_candidate_id,
     child_candidate_id |-> child_candidate_id,
     relation_type |-> "promotion_toid_usrn",
     produced_build_run_id |-> build_run_id]

\* pass 3 with the promotion written as an UPDATE of the parent row
Pass3PromotionInPlace(d, sq, build_run_id) ==
    LET base == InsertCandidates(d, sq, Pass3BaseRows(d, build_run_id))
        promotion_rows == PromotionRows(base.d, build_run_id)
        promoted(c) == {i \in DOMAIN promotion_rows : promotion_rows[i][1] = c}
    IN Handled(
        [base.d EXCEPT !.postcode_street_candidates =
            {IF promoted(c) = {} THEN c
             ELSE [c EXCEPT !.candidate_type = "oli_toid_usrn", !.confidence = "high",
                            !.usrn = promotion_rows[CHOOSE i \in promoted(c) : TRUE][2].usrn] :
                c \in @}],
        base.sq, NULL)

pass_3_open_names_candidates(d, sq, build_run_id) ==
    LET base == InsertCandidates(d, sq, Pass3BaseRows(d, build_run_id))
        promotion_rows == PromotionRows(base.d, build_run_id)
        children ==
            [i \in DOMAIN promotion_rows |->
                LET parent == promotion_rows[i][1]
                    oli == promotion_rows[i][2]
                IN [candidate_id |-> 0, produced_build_run_id |-> build_run_id,
                    postcode |-> parent.postcode,
                    street_name_raw |-> parent.street_name_raw,
                    street_name_canonical |-> parent.street_name_canonical,
                    usrn |-> oli.usrn, candidate_type |-> "oli_toid_usrn",
                    confidence |-> "high",
                    evidence_ref |-> EvidenceRef("oli:toid_usrn:", parent.evidence_json.toid, 0, NULL),
                    source_name |-> "os_open_lids", ingest_run_id |-> oli.ingest_run_id,
                    evidence_json |-> Evidence(NULL, parent.evidence_json.toid, oli.usrn,
                                               0, NULL, NULL)]]
        promoted == InsertCandidates(base.d, base.sq, children)
        lineage == {LineageEdge(promotion_rows[i][1].candidate_id, base.sq.candidate_id + i,
                                build_run_id) : i \in DOMAIN promotion_rows}
    IN Handled([promoted.d EXCEPT !.postcode_street_candidate_lineage = @ \cup lineage],
               promoted.sq, NULL)

pass_4_uprn_reinforcement(d, sq, build_run_id) ==
    LET joined == {<<n, o>> \in StageRows(d.stage_nsul_uprn_postcode, build_run_id)
                                \X StageRows(d.stage_oli_uprn_usrn, build_run_id) :
                        o.uprn = n.uprn}
        pairs == {<<j[1].postcode_norm, j[2].usrn>> : j \in joined}
        members(a) == {j \in joined : j[1].postcode_norm = a[1] /\ j[2].usrn = a[2]}
        oli_run(a) == CHOOSE r \in {j[2].ingest_run_id : j \in members(a)} :
                         \A q \in {j[2].ingest_run_id : j \in members(a)} : r <= q
        rows == {<<a, p, s>> \in pairs \X RunRows(d.postcodes, build_run_id)
                                      \X RunRows(d.streets_usrn, build_run_id) :
                    /\ StripSpaces(p.postcode) = a[1]
                    /\ s.usrn = a[2]}
        ordered == OrderBy(rows, LAMBDA x, y :
                        \/ SeqLess(x[2].postcode, y[2].postcode)
                        \/ (x[2].postcode = y[2].postcode /\ x[1][2] < y[1][2]))
    IN InsertCandidates(d, sq,
        [i \in DOMAIN ordered |->
            [candidate_id |-> 0, produced_build_run_id |-> build_run_id,
             postcode |-> ordered[i][2].postcode,
             street_name_raw |-> ordered[i][3].street_name,
             street_name_canonical |-> ordered[i][3].street_name_casefolded,
             usrn |-> ordered[i][1][2], candidate_type |-> "uprn_usrn",
             confidence |-> "high",
             evidence_ref |-> EvidenceRef("oli:uprn_usrn:", "_uprns",
                                          Cardinality(members(ordered[i][1])), NULL),
             source_name |-> "os_open_lids", ingest_run_id |-> oli_run(ordered[i][1]),
             evidence_json |-> Evidence(NULL, NULL, NO_USRN,
                                        Cardinality(members(ordered[i][1])), NULL, NULL)]])

----------------------------------------------------------------------------
(* Passes 5 to 7 *)

\* ROW_NUMBER() ... ORDER BY id COLLATE "C" = 1: the row of the least id
FirstById(rows, Id(_)) == CHOOSE x \in rows : \A y \in rows : y = x \/ StrLess(Id(x), Id(y))

\* a set of postcode rows as a sequence, ORDER BY postcode COLLATE "C"
ByPostcode(rows) == OrderBy(rows, LAMBDA x, y : SeqLess(x.postcode, y.postcode))

\* candidates of any confidence are not looked at
Pass5IgnoringHigh(d, sq, build_run_id) ==
    LET segments(p) == {r \in StageRows(d.stage_open_roads_segment, build_run_id) :
                            r.postcode_norm = StripSpaces(p.postcode)}
        gb_postcodes == {p \in RunRows(d.postcodes, build_run_id) : p.country_iso2 = "GB"}
        ordered == ByPostcode({p \in gb_postcodes : segments(p) # {}})
    IN InsertCandidates(d, sq,
        [i \in DOMAIN ordered |->
            LET rs == FirstById(segments(ordered[i]), LAMBDA r : r.segment_id)
            IN [candidate_id |-> 0, produced_build_run_id |-> build_run_id,
                postcode |-> ordered[i].postcode,
                street_name_raw |-> rs.road_name,
                street_name_canonical |-> rs.road_name_casefolded,
                usrn |-> rs.usrn, candidate_type |-> "spatial_os_open_roads",
                confidence |-> "low",
                evidence_ref |-> EvidenceRef("spatial:os_open_roads:", rs.segment_id, 0, NULL),
                source_name |-> "os_open_roads", ingest_run_id |-> rs.ingest_run_id,
                evidence_json |-> Evidence(NULL, NULL, NO_USRN, 0, rs.segment_id, NULL)]])

pass_5_gb_spatial_fallback(d, sq, build_run_id) ==
    LET candidates == RunRows(d.postcode_street_candidates, build_run_id)
        segments(p) == {r \in StageRows(d.stage_open_roads_segment, build_run_id) :
                            r.postcode_norm = StripSpaces(p.postcode)}
        gb_postcodes_without_high ==
            {p \in RunRows(d.postcodes, build_run_id) :
                /\ p.country_iso2 = "GB"
                /\ ~ \E c \in candidates : c.postcode = p.postcode /\ c.confidence = "high"}
        ordered == ByPostcode({p \in gb_postcodes_without_high : segments(p) # {}})
    IN InsertCandidates(d, sq,
        [i \in DOMAIN ordered |->
            LET rs == FirstById(segments(ordered[i]), LAMBDA r : r.segment_id)
            IN [candidate_id |-> 0, produced_build_run_id |-> build_run_id,
                postcode |-> ordered[i].postcode,
                street_name_raw |-> rs.road_name,
                street_name_canonical |-> rs.road_name_casefolded,
                usrn |-> rs.usrn, candidate_type |-> "spatial_os_open_roads",
                confidence |-> "low",
                evidence_ref |-> EvidenceRef("spatial:os_open_roads:", rs.segment_id, 0, NULL),
                source_name |-> "os_open_roads", ingest_run_id |-> rs.ingest_run_id,
                evidence_json |-> Evidence(NULL, NULL, NO_USRN, 0, rs.segment_id, NULL)]])

\* the first statement of pass 6, rows in insertion order (ORDER BY feature_id)
Pass6DirectRows(d, build_run_id) ==
    LET joined == {<<n, p>> \in StageRows(d.stage_osni_street_point, build_run_id)
                                \X RunRows(d.postcodes, build_run_id) :
                        /\ StripSpaces(p.postcode) = n.postcode_norm
                        /\ p.subdivision_code = "GB-NIR"}
        ordered == OrderBy(joined, LAMBDA a, b : StrLess(a[1].feature_id, b[1].feature_id))
    IN [i \in DOMAIN ordered |->
          [candidate_id |-> 0, produced_build_run_id |-> build_run_id,
           postcode |-> ordered[i][2].postcode,
           street_name_raw |-> ordered[i][1].street_name_raw,
           street_name_canonical |-> ordered[i][1].street_name_casefolded,
           usrn |-> NO_USRN, candidate_type |-> "osni_gazetteer_direct",
           confidence |-> "medium",
           evidence_ref |-> EvidenceRef("osni_gazetteer:feature:", ordered[i][1].feature_id, 0, NULL),
           source_name |-> "osni_gazetteer", ingest_run_id |-> ordered[i][1].ingest_run_id,
           evidence_json |-> Evidence(ordered[i][1].feature_id, NULL, NO_USRN, 0, NULL, NULL)]]

\* the fallback looks at the candidates as they were before the direct sub-pass
Pass6FallbackBeforeDirect(d, sq, build_run_id) ==
    LET direct == InsertCandidates(d, sq, Pass6DirectRows(d, build_run_id))
        candidates == RunRows(d.postcode_street_candidates, build_run_id)
        segments(p) == {r \in StageRows(d.stage_dfi_road_segment, build_run_id) :
                            r.postcode_norm = StripSpaces(p.postcode)}
        ni_without_candidates ==
            {p \in RunRows(d.postcodes, build_run_id) :
                /\ p.subdivision_code = "GB-NIR"
                /\ ~ \E c \in candidates : c.postcode = p.postcode}
        ordered == ByPostcode({p \in ni_without_candidates : segments(p) # {}})
    IN InsertCandidates(direct.d, direct.sq,
        [i \in DOMAIN ordered |->
            LET r == FirstById(segments(ordered[i]), LAMBDA x : x.segment_id)
            IN [candidate_id |-> 0, produced_build_run_id |-> build_run_id,
                postcode |-> ordered[i].postcode,
                street_name_raw |-> r.street_name_raw,
                street_name_canonical |-> r.street_name_casefolded,
                usrn |-> NO_USRN, candidate_type |-> "spatial_dfi_highway",
                confidence |-> "low",
                evidence_ref |-> EvidenceRef("spatial:dfi_highway:", r.segment_id, 0, NULL),
                source_name |-> "dfi_highway", ingest_run_id |-> r.ingest_run_id,
                evidence_json |-> Evidence(NULL, NULL, NO_USRN, 0, r.segment_id, NULL)]])

pass_6_ni_candidates(d, sq, build_run_id) ==
    LET direct == InsertCandidates(d, sq, Pass6DirectRows(d, build_run_id))
        candidates == RunRows(direct.d.postcode_street_candidates, build_run_id)
        segments(p) == {r \in StageRows(d.stage_dfi_road_segment, build_run_id) :
                            r.postcode_norm = StripSpaces(p.postcode)}
        ni_without_candidates ==
            {p \in RunRows(d.postcodes, build_run_id) :
                /\ p.subdivision_code = "GB-NIR"
                /\ ~ \E c \in candidates : c.postcode = p.postcode}
        ordered == ByPostcode({p \in ni_without_candidates : segments(p) # {}})
    IN InsertCandidates(direct.d, direct.sq,
        [i \in DOMAIN ordered |->
            LET r == FirstById(segments(ordered[i]), LAMBDA x : x.segment_id)
            IN [candidate_id |-> 0, produced_build_run_id |-> build_run_id,
                postcode |-> ordered[i].postcode,
                street_name_raw |-> r.street_name_raw,
                street_name_canonical |-> r.street_name_casefolded,
                usrn |-> NO_USRN, candidate_type |-> "spatial_dfi_highway",
                confidence |-> "low",
                evidence_ref |-> EvidenceRef("spatial:dfi_highway:", r.segment_id, 0, NULL),
                source_name |-> "dfi_highway", ingest_run_id |-> r.ingest_run_id,
                evidence_json |-> Evidence(NULL, NULL, NO_USRN, 0, r.segment_id, NULL)]])

\* the `matched` CTE of pass 7: each staged ppd row of a known postcode, LEFT
\* JOINed to the run's streets of the same casefolded name (usrn NO_USRN and
\* street_name NULL when there is none)
PpdMatched(d, build_run_id) ==
    LET joined == {<<p, c>> \in StageRows(d.stage_ppd_parsed_address, build_run_id)
                                \X RunRows(d.postcodes, build_run_id) :
                        StripSpaces(c.postcode) = p.postcode_norm}
        streets(p) == {s \in RunRows(d.streets_usrn, build_run_id) :
                            s.street_name_casefolded = p.street_token_casefolded}
        row(p, c, usrn, street_name, street_name_casefolded) ==
            [row_hash |-> p.row_hash, postcode |-> c.postcode,
             house_number |-> p.house_number, street_token_raw |-> p.street_token_raw,
             ingest_run_id |-> p.ingest_run_id, usrn |-> usrn,
             street_name |-> street_name, street_name_casefolded |-> street_name_casefolded]
    IN UNION { IF streets(j[1]) = {}
               THEN {row(j[1], j[2], NO_USRN, NULL, NULL)}
               ELSE {row(j[1], j[2], s.usrn, s.street_name, s.street_name_casefolded) :
                        s \in streets(j[1])} : j \in joined }

\* ORDER BY postcode leaves rows of one postcode in no stated order; here they
\* go in row_hash, usrn order
PpdOrdered(d, build_run_id) ==
    OrderBy(PpdMatched(d, build_run_id), LAMBDA x, y :
        \/ SeqLess(x.postcode, y.postcode)
        \/ /\ x.postcode = y.postcode
           /\ \/ StrLess(x.row_hash, y.row_hash)
              \/ (x.row_hash = y.row_hash /\ x.usrn < y.usrn))

pass_7_ppd_gap_fill(d, sq, build_run_id) ==
    LET matched == PpdOrdered(d, build_run_id)
        hn(m) == IF m.house_number = NULL THEN "" ELSE m.house_number
        inserted == InsertCandidates(d, sq,
            [i \in DOMAIN matched |->
                LET m == matched[i]
                IN [candidate_id |-> 0, produced_build_run_id |-> build_run_id,
                    postcode |-> m.postcode,
                    street_name_raw |-> m.street_token_raw,
                    street_name_canonical |->
                        IF m.street_name_casefolded # NULL THEN m.street_name_casefolded
                        ELSE street_casefold(m.street_token_raw),
                    usrn |-> m.usrn,
                    candidate_type |-> IF m.usrn = NO_USRN THEN "ppd_parse_unmatched"
                                       ELSE "ppd_parse_matched",
                    confidence |-> IF m.usrn = NO_USRN THEN "low" ELSE "medium",
                    evidence_ref |-> EvidenceRef("ppd:row:", m.street_token_raw, 0, hn(m)),
                    source_name |-> "ppd", ingest_run_id |-> m.ingest_run_id,
                    evidence_json |-> Evidence(NULL, NULL, NO_USRN, 0, NULL, m.house_number)]])
    IN Handled(
        [inserted.d EXCEPT !.unit_index = @ \cup
            {[produced_build_run_id |-> build_run_id, postcode |-> m.postcode,
              house_number |-> hn(m),
              street_name |-> IF m.street_name # NULL THEN m.street_name ELSE m.street_token_raw,
              usrn |-> m.usrn,
              confidence |-> IF m.usrn = NO_USRN THEN "low" ELSE "medium",
              source_type |-> IF m.usrn = NO_USRN THEN "ppd_parse_unmatched"
                              ELSE "ppd_parse_matched",
              ingest_run_id |-> m.ingest_run_id] : m \in Range(matched)}],
        inserted.sq, NULL)

----------------------------------------------------------------------------
(* Pass 8: finalisation.  A configured weight is an integer in units of     *)
(* 0.00001; a numeric(10,4) value is an integer in units of 0.0001.         *)

ONE == 10000    \* 1.0000

\* _weight_config: the error it raises for the configured weights, or "ok"
weight_config(raw_weights) ==
    IF Range(CANDIDATE_TYPES) \ DOMAIN raw_weights # {}
    THEN "frequency_weights missing candidate types"
    ELSE IF \E k \in DOMAIN raw_weights : raw_weights[k] <= 0
    THEN "frequency weight must be > 0"
    ELSE IF DOMAIN raw_weights \ Range(CANDIDATE_TYPES) # {}
    THEN "frequency_weights has unknown candidate types"
    ELSE "ok"

\* a configured weight stored in the numeric(10,4) column of tmp_candidate_weights
Numeric4(raw_weight) == (raw_weight + 5) \div 10

\* ROUND(n / m, 4) of non-negative n, positive m, in units of 0.0001: half rounds up
RoundedQuotient(n, m) ==
    ((ONE * n) \div m) + (IF 2 * ((ONE * n) % m) >= m THEN 1 ELSE 0)

ConfRank(confidence) ==
    CASE confidence = "high" -> 3 [] confidence = "medium" -> 2
      [] confidence = "low" -> 1 [] OTHER -> 0

confidence_from_rank(conf_rank) ==
    IF conf_rank >= 3 THEN "high"
    ELSE IF conf_rank = 2 THEN "medium"
    ELSE IF conf_rank = 1 THEN "low"
    ELSE "none"

\* usrn ASC NULLS LAST
UsrnLess(a, b) == a # NO_USRN /\ (b = NO_USRN \/ a < b)

\* the name of the candidate row is taken whatever core.streets_usrn holds
WeightedByCandidateName(d, build_run_id, raw_weights) ==
    {[candidate_id |-> c.candidate_id, postcode |-> c.postcode,
      canonical_street_name |-> c.street_name_canonical,
      usrn |-> c.usrn, source_name |-> c.source_name, ingest_run_id |-> c.ingest_run_id,
      candidate_type |-> c.candidate_type,
      weight |-> Numeric4(raw_weights[c.candidate_type]),
      conf_rank |-> ConfRank(c.confidence)] :
        c \in RunRows(d.postcode_street_candidates, build_run_id)}

\* tmp_weighted_candidates
WeightedCandidates(d, build_run_id, raw_weights) ==
    {[candidate_id |-> c.candidate_id, postcode |-> c.postcode,
      canonical_street_name |->
          IF \E s \in RunRows(d.streets_usrn, build_run_id) : s.usrn = c.usrn
          THEN (CHOOSE s \in RunRows(d.streets_usrn, build_run_id) : s.usrn = c.usrn).street_name
          ELSE c.street_name_canonical,
      usrn |-> c.usrn, source_name |-> c.source_name, ingest_run_id |-> c.ingest_run_id,
      candidate_type |-> c.candidate_type,
      weight |-> Numeric4(raw_weights[c.candidate_type]),
      conf_rank |-> ConfRank(c.confidence)] :
        c \in RunRows(d.postcode_street_candidates, build_run_id)}

TotalWeight(weighted, postcode) ==
    SumOver({w.candidate_id : w \in {x \in weighted : x.postcode = postcode}},
            [i \in {w.candidate_id : w \in weighted} |->
                (CHOOSE w \in weighted : w.candidate_id = i).weight])

\* the rounded share of every row, the rank-1 row included
FinalProbabilityUncorrected(rn, rounded_probability, rounded_sum) == rounded_probability

\* final_probability: the rank-1 row takes the residual of the rounded sum
FinalProbability(rn, rounded_probability, rounded_sum) ==
    IF rn = 1 THEN rounded_probability + (ONE - rounded_sum) ELSE rounded_probability

\* the rows the finalisation query returns, each with its rank rn
FinalRows(weighted) ==
    LET keys == {<<w.postcode, w.canonical_street_name>> : w \in weighted}
        members(k) == {w \in weighted : w.postcode = k[1] /\ w.canonical_street_name = k[2]}
        weight_of == [i \in {w.candidate_id : w \in weighted} |->
                        (CHOOSE w \in weighted : w.candidate_id = i).weight]
        usrns(k) == {w.usrn : w \in members(k)} \ {NO_USRN}
        grouped == {[postcode |-> k[1], canonical_street_name |-> k[2],
                     usrn |-> IF usrns(k) = {} THEN NO_USRN
                              ELSE CHOOSE u \in usrns(k) : \A v \in usrns(k) : u <= v,
                     weighted_score |-> SumOver({w.candidate_id : w \in members(k)}, weight_of),
                     conf_rank |-> CHOOSE r \in {w.conf_rank : w \in members(k)} :
                                      \A q \in {w.conf_rank : w \in members(k)} : r >= q] :
                    k \in keys}
        total_weight(postcode) == TotalWeight(weighted, postcode)
        \* raw_probability DESC is weighted_score DESC within one postcode
        Before(g, h) ==
            \/ g.weighted_score > h.weighted_score
            \/ /\ g.weighted_score = h.weighted_score
               /\ \/ g.conf_rank > h.conf_rank
                  \/ /\ g.conf_rank = h.conf_rank
                     /\ \/ StrLess(g.canonical_street_name, h.canonical_street_name)
                        \/ /\ g.canonical_street_name = h.canonical_street_name
                           /\ UsrnLess(g.usrn, h.usrn)
        rn(g) == 1 + Cardinality({h \in grouped : h.postcode = g.postcode /\ Before(h, g)})
        rounded_probability(g) == RoundedQuotient(g.weighted_score, total_weight(g.postcode))
        rounded_sum(postcode) ==
            LET rows == {g \in grouped : g.postcode = postcode}
                names == {g.canonical_street_name : g \in rows}
            IN SumOver(names, [n \in names |->
                    rounded_probability(CHOOSE g \in rows : g.canonical_street_name = n)])
    IN {[postcode |-> g.postcode, canonical_street_name |-> g.canonical_street_name,
         usrn |-> g.usrn, weighted_score |-> g.weighted_score, conf_rank |-> g.conf_rank,
         final_probability |->
            FinalProbability(rn(g), rounded_probability(g), rounded_sum(g.postcode)),
         rn |-> rn(g)] : g \in grouped}

\* DROP TABLE IF EXISTS api.<table>__<suffix> CASCADE: the table goes, and
\* with it the view that selects from it
DropApiTable(d, kind, suffix) ==
    [d EXCEPT
        !.api_tables = {t \in @ : ~(t.kind = kind /\ t.suffix = suffix)},
        !.api_views = {v \in @ : ~(v.kind = kind /\ v.suffix = suffix)}]

ApiTable(d, kind, suffix) == {t \in d.api_tables : t.kind = kind /\ t.suffix = suffix}

\* the rows of CREATE TABLE api.postcode_street_lookup__<suffix> AS ...
StreetLookupRows(d, build_run_id, dataset_version) ==
    {[postcode |-> f.postcode, street_name |-> f.street_name, usrn |-> f.usrn,
      confidence |-> f.confidence, frequency_score |-> f.frequency_score,
      probability |-> f.probability, dataset_version |-> dataset_version,
      produced_build_run_id |-> f.produced_build_run_id] :
        f \in RunRows(d.postcode_streets_final, build_run_id)}

\* jsonb_agg(... ORDER BY probability DESC, confidence rank DESC, name, usrn)
StreetsJson(street_rows, postcode) ==
    LET rows == {s \in street_rows : s.postcode = postcode}
        ordered == OrderBy(rows, LAMBDA a, b :
            \/ a.probability > b.probability
            \/ /\ a.probability = b.probability
               /\ \/ ConfRank(a.confidence) > ConfRank(b.confidence)
                  \/ /\ ConfRank(a.confidence) = ConfRank(b.confidence)
                     /\ \/ StrLess(a.street_name, b.street_name)
                        \/ (a.street_name = b.street_name /\ UsrnLess(a.usrn, b.usrn)))
    IN [i \in DOMAIN ordered |->
          [name |-> ordered[i].street_name, confidence |-> ordered[i].confidence,
           probability |-> ordered[i].probability, usrn |-> ordered[i].usrn]]

\* array_agg(DISTINCT source_name ORDER BY source_name), or ARRAY['onspd']
PostcodeSources(d, build_run_id, postcode) ==
    LET names == {fs.source_name : fs \in
                    {x \in d.postcode_streets_final_source :
                        \E f \in RunRows(d.postcode_streets_final, build_run_id) :
                            f.final_id = x.final_id /\ f.postcode = postcode}}
    IN IF names = {} THEN <<"onspd">>
       ELSE SortBy(names, [n \in names |-> SourceRank(n)])

\* the rows of CREATE TABLE api.postcode_lookup__<suffix> AS ...
LookupRows(d, street_rows, build_run_id, dataset_version) ==
    {[postcode |-> p.postcode, country_iso2 |-> p.country_iso2,
      subdivision_code |-> p.subdivision_code, multi_street |-> p.multi_street,
      streets_json |-> StreetsJson(street_rows, p.postcode),
      sources |-> PostcodeSources(d, build_run_id, p.postcode),
      dataset_version |-> dataset_version,
      produced_build_run_id |-> p.produced_build_run_id] :
        p \in RunRows(d.postcodes, build_run_id)}

create_api_projection_tables(d, build_run_id, dataset_version) ==
    LET suffix == safe_version_suffix(dataset_version)
        street_rows == StreetLookupRows(d, build_run_id, dataset_version)
        d1 == DropApiTable(d, "postcode_street_lookup", suffix)
        d2 == [d1 EXCEPT !.api_tables = @ \cup
                {[kind |-> "postcode_street_lookup", suffix |-> suffix, rows |-> street_rows]}]
        d3 == DropApiTable(d2, "postcode_lookup", suffix)
    IN [d3 EXCEPT !.api_tables = @ \cup
            {[kind |-> "postcode_lookup", suffix |-> suffix,
              rows |-> LookupRows(d3, street_rows, build_run_id, dataset_version)]}]

\* the inserts and updates of pass 8 for the rows the finalisation query returned
InsertFinal(d, sq, build_run_id, weighted, final_rows) ==
    LET ordered == OrderBy(final_rows, LAMBDA a, b :
                        \/ SeqLess(a.postcode, b.postcode)
                        \/ (a.postcode = b.postcode /\ a.rn < b.rn))
        members(i) == {w \in weighted : /\ w.postcode = ordered[i].postcode
                                        /\ w.canonical_street_name = ordered[i].canonical_street_name}
        candidate_ids(i) == SortBy({w.candidate_id : w \in members(i)},
                                   [c \in {w.candidate_id : w \in weighted} |-> c])
        weight_of == [c \in {w.candidate_id : w \in weighted} |->
                        (CHOOSE w \in weighted : w.candidate_id = c).weight]
        sources(i) == {<<w.source_name, w.ingest_run_id, w.candidate_type>> : w \in members(i)}
        final == {[final_id |-> sq.final_id + i, produced_build_run_id |-> build_run_id,
                   postcode |-> ordered[i].postcode,
                   street_name |-> ordered[i].canonical_street_name,
                   usrn |-> ordered[i].usrn,
                   confidence |-> confidence_from_rank(ordered[i].conf_rank),
                   frequency_score |-> ordered[i].weighted_score,
                   probability |-> ordered[i].final_probability] : i \in DOMAIN ordered}
        final_candidate ==
            UNION {{[final_id |-> sq.final_id + i, candidate_id |-> candidate_ids(i)[rank],
                     produced_build_run_id |-> build_run_id, link_rank |-> rank] :
                        rank \in DOMAIN candidate_ids(i)} : i \in DOMAIN ordered}
        final_source ==
            UNION {{[final_id |-> sq.final_id + i, source_name |-> k[1],
                     ingest_run_id |-> k[2], candidate_type |-> k[3],
                     contribution_weight |->
                        SumOver({w.candidate_id : w \in
                                    {x \in members(i) : /\ x.source_name = k[1]
                                                        /\ x.ingest_run_id = k[2]
                                                        /\ x.candidate_type = k[3]}},
                                weight_of),
                     produced_build_run_id |-> build_run_id] :
                        k \in sources(i)} : i \in DOMAIN ordered}
        street_count(postcode) == Cardinality({f \in final : f.postcode = postcode})
    IN Handled(
        [d EXCEPT
            !.postcode_streets_final = @ \cup final,
            !.postcode_streets_final_candidate = @ \cup final_candidate,
            !.postcode_streets_final_source = @ \cup final_source,
            !.postcodes = {IF p.produced_build_run_id # build_run_id THEN p
                           ELSE [p EXCEPT !.multi_street =
                                    IF street_count(p.postcode) > 1 THEN "true" ELSE "false"] :
                           p \in @}],
        [sq EXCEPT !.final_id = @ + Len(ordered)],
        NULL)

pass_8_finalisation(d, sq, build_run_id, dataset_version, raw_weights) ==
    LET weighted == WeightedCandidates(d, build_run_id, raw_weights)
        inserted == InsertFinal(d, sq, build_run_id, weighted, FinalRows(weighted))
    IN IF weight_config(raw_weights) # "ok"
       THEN Handled(d, sq, weight_config(raw_weights))
       ELSE IF \E w \in weighted : TotalWeight(weighted, w.postcode) <= 0
       THEN Handled(d, sq, "Finalisation failed: total_weight <= 0")
       ELSE Handled(create_api_projection_tables(inserted.d, build_run_id, dataset_version),
                    inserted.sq, NULL)

----------------------------------------------------------------------------
(* The run controller's helpers.  Row i of build_run is the run with id i;  *)
(* runs are created one after the other, so a greater id is a later         *)
(* started_at_utc.                                                          *)

\* _load_bundle and the checks of run_build lines 2700-2716: the BuildError
\* raised for the bundle, or "ok"
LoadBundleCheck(d, bundle_id) ==
    IF bundle_id \notin DOMAIN d.build_bundle THEN "Bundle not found"
    ELSE LET source_runs == BundleSourceRuns(d, bundle_id)
             required == BUILD_PROFILES[d.build_bundle[bundle_id].build_profile]
         IN IF ~(required \subseteq DOMAIN source_runs)
            THEN "Bundle missing required sources"
            ELSE IF \E s \in required \ {"ppd"} : Len(source_runs[s]) # 1
            THEN "Bundle source must include exactly one ingest run"
            ELSE "ok"

\* the runs _latest_resumable_run chooses from
ResumableRuns(d, bundle_id) ==
    {r \in DOMAIN d.build_run :
        /\ d.build_run[r].bundle_id = bundle_id
        /\ d.build_run[r].status \in {"started", "failed"}}

\* ORDER BY started_at_utc ASC LIMIT 1
EarliestResumableRun(d, bundle_id) ==
    IF ResumableRuns(d, bundle_id) = {} THEN 0
    ELSE CHOOSE r \in ResumableRuns(d, bundle_id) :
            \A q \in ResumableRuns(d, bundle_id) : r <= q

\* ORDER BY started_at_utc DESC LIMIT 1 (0 when there is no row)
latest_resumable_run(d, bundle_id) ==
    IF ResumableRuns(d, bundle_id) = {} THEN 0
    ELSE CHOOSE r \in ResumableRuns(d, bundle_id) :
            \A q \in ResumableRuns(d, bundle_id) : q <= r

\* the checkpoints of the run and the pass the run row names as current
CompletedThroughCurrentPass(d, build_run_id) ==
    {c[2] : c \in {x \in d.build_pass_checkpoint : x[1] = build_run_id}}
        \cup ({d.build_run[build_run_id].current_pass} \cap Range(PASS_ORDER))

load_completed_passes(d, build_run_id) ==
    {c[2] : c \in {x \in d.build_pass_checkpoint : x[1] = build_run_id}}

create_build_run(d, bundle_id, dataset_version) ==
    [d EXCEPT !.build_run = Append(@,
        [bundle_id |-> bundle_id, dataset_version |-> dataset_version,
         status |-> "started", current_pass |-> "initialising", error_text |-> NULL,
         finished_at_utc |-> 0])]    \* 0: SQL NULL in a timestamp column

set_build_run_pass(d, build_run_id, pass_name) ==
    [d EXCEPT !.build_run[build_run_id].current_pass = pass_name]

\* an upsert on (build_run_id, pass_name)
mark_pass_checkpoint(d, build_run_id, pass_name) ==
    [d EXCEPT !.build_pass_checkpoint = @ \cup {<<build_run_id, pass_name>>}]

\* status and error_text are written, current_pass is left as committed
MarkFailedKeepingPass(d, build_run_id, current_pass, error_text) ==
    [d EXCEPT !.build_run[build_run_id] =
        [@ EXCEPT !.status = "failed", !.error_text = error_text,
                  !.finished_at_utc = d.now]]

mark_build_failed(d, build_run_id, current_pass, error_text) ==
    [d EXCEPT !.build_run[build_run_id] =
        [@ EXCEPT !.status = "failed", !.current_pass = current_pass,
                  !.error_text = error_text, !.finished_at_utc = d.now]]

\* error_text is left as the last failure wrote it
MarkBuiltKeepingError(d, bundle_id, build_run_id) ==
    [d EXCEPT
        !.build_run[build_run_id] =
            [@ EXCEPT !.status = "built", !.current_pass = "complete",
                      !.finished_at_utc = d.now],
        !.build_bundle[bundle_id].status = "built"]

mark_build_built(d, bundle_id, build_run_id) ==
    [d EXCEPT
        !.build_run[build_run_id] =
            [@ EXCEPT !.status = "built", !.current_pass = "complete",
                      !.finished_at_utc = d.now, !.error_text = NULL],
        !.build_bundle[bundle_id].status = "built"]

OutputTables ==
    { "unit_index", "postcode_streets_final_source", "postcode_streets_final_candidate",
      "postcode_street_candidate_lineage", "postcode_streets_final",
      "postcode_street_candidates", "postcodes_meta", "streets_usrn", "postcodes" }

\* _clear_run_outputs: DELETE ... WHERE produced_build_run_id = %s on every
\* output table, then the run's canonical hashes and checkpoints
clear_run_outputs(d, build_run_id) ==
    [t \in DOMAIN d |->
        IF t \in OutputTables THEN {x \in d[t] : x.produced_build_run_id # build_run_id}
        ELSE IF t = "canonical_hash" THEN {x \in d[t] : x.build_run_id # build_run_id}
        ELSE IF t = "build_pass_checkpoint" THEN {x \in d[t] : x[1] # build_run_id}
        ELSE d[t]]

\* _pass_handler and the call of run_build lines 2739-2745
pass_handler(pass_name, d, sq, build_run_id, source_runs, dataset_version, raw_weights) ==
    CASE pass_name = "0a_raw_ingest" -> pass_0a_raw_ingest(d, sq, build_run_id, source_runs)
      [] pass_name = "0b_stage_normalisation" ->
            pass_0b_stage_normalisation(d, sq, build_run_id, source_runs)
      [] pass_name = "1_onspd_backbone" -> pass_1_onspd_backbone(d, sq, build_run_id)
      [] pass_name = "2_gb_canonical_streets" -> pass_2_gb_canonical_streets(d, sq, build_run_id)
      [] pass_name = "3_open_names_candidates" -> pass_3_open_names_candidates(d, sq, build_run_id)
      [] pass_name = "4_uprn_reinforcement" -> pass_4_uprn_reinforcement(d, sq, build_run_id)
      [] pass_name = "5_gb_spatial_fallback" -> pass_5_gb_spatial_fallback(d, sq, build_run_id)
      [] pass_name = "6_ni_candidates" -> pass_6_ni_candidates(d, sq, build_run_id)
      [] pass_name = "7_ppd_gap_fill" -> pass_7_ppd_gap_fill(d, sq, build_run_id)
      [] pass_name = "8_finalisation" ->
            pass_8_finalisation(d, sq, build_run_id, dataset_version, raw_weights)

\* a resumed loop also skips the first pass that has no checkpoint
NextPassAfterTheFailedOne(i, completed_passes) ==
    LET skipped == IF completed_passes = {} THEN {}
                   ELSE completed_passes \cup
                        {PASS_ORDER[j] : j \in {k \in DOMAIN PASS_ORDER :
                            /\ PASS_ORDER[k] \notin completed_passes
                            /\ \A m \in 1..(k - 1) : PASS_ORDER[m] \in completed_passes}}
    IN IF \E j \in i..Len(PASS_ORDER) : PASS_ORDER[j] \notin skipped
       THEN CHOOSE j \in i..Len(PASS_ORDER) :
                /\ PASS_ORDER[j] \notin skipped
                /\ \A k \in i..(j - 1) : PASS_ORDER[k] \in skipped
       ELSE Len(PASS_ORDER) + 1

\* the loop of run_build: the first pass from position i on that is not in
\* completed_passes; Len(PASS_ORDER) + 1 when the loop is over
NextPass(i, completed_passes) ==
    IF \E j \in i..Len(PASS_ORDER) : PASS_ORDER[j] \notin completed_passes
    THEN CHOOSE j \in i..Len(PASS_ORDER) :
            /\ PASS_ORDER[j] \notin completed_passes
            /\ \A k \in i..(j - 1) : PASS_ORDER[k] \in completed_passes
    ELSE Len(PASS_ORDER) + 1

----------------------------------------------------------------------------
(* Bounds *)

MaxBundles == 1        \* bundles created
MaxRuns == 1           \* build runs created in the full pipeline
MaxFaults == 2         \* exceptions and signals the environment injects
MaxPublications == 1
MaxBuildRuns == 2      \* build runs created when only run_build is exercised
MaxBuildFaults == 2    \* exceptions injected when only run_build is exercised
MaxCreatedBundles == 2 \* bundles created when only create_build_bundle is exercised
MaxCandidates == 3     \* candidates drawn when only pass 8 is exercised
MaxPublishBundles == 2 \* bundles created when publication is exercised
MaxPublishRuns == 2    \* build runs created when publication is exercised
MaxRepublications == 2 \* publications when publication is exercised
MaxConcurrentRuns == 2 \* build runs created when two processes run run_build
MaxSwitches == 3       \* times the two processes take turns
MaxConcurrentPasses == 3 \* passes an invocation executes when two processes run it
MaxTextLen == 4        \* characters of a postcode text given to the normalisers

----------------------------------------------------------------------------
(* Commands.  One command runs at a time on one connection; a command that  *)
(* raises leaves through connect(), which closes the connection and so      *)
(* discards what it had not committed.                                      *)

Idle == pc = "idle"

Note(last) == [hist EXCEPT !.last = last]

CreateBuildBundle ==
    /\ Idle
    /\ \E manifest \in env.manifests :
          \* the bound is on the bundles stored, not on the calls
          /\ \/ Len(db.build_bundle) < env.max_bundles
             \/ BundleValidation(manifest) # "ok"
             \/ ExistingBundles(db, manifest.build_profile,
                                bundle_hash(manifest.build_profile, manifest.source_runs)) # {}
          /\ create_build_bundle(manifest)
    /\ tx' = db'
    /\ hist' = [hist EXCEPT !.last = "CreateBuildBundle",
                            !.created = IF outcome'.status = "created"
                                        THEN Append(@, outcome'.manifest) ELSE @]
    /\ UNCHANGED <<seq, pc, op, env, peer>>

\* the run is created and committed before the invocation is refused
RunBuildRefusedAfterCreate(bundle_id, rebuild, resume) ==
    LET error == IF rebuild /\ resume THEN "--rebuild and --resume cannot be used together"
                 ELSE IF LoadBundleCheck(db, bundle_id) # "ok" THEN LoadBundleCheck(db, bundle_id)
                 ELSE IF resume /\ latest_resumable_run(db, bundle_id) = 0
                 THEN "No resumable run found for bundle"
                 ELSE "ok"
    IN /\ Idle
       /\ error # "ok"
       /\ outcome' = Result("build_run", "error", 0, error)
       /\ hist' = Note("RunBuildRefused")
       /\ db' = IF bundle_id \in DOMAIN db.build_bundle
                THEN create_build_run(db, bundle_id,
                        dataset_version_from_bundle_hash(db.build_bundle[bundle_id].bundle_hash))
                ELSE db
       /\ tx' = db'
       /\ UNCHANGED <<seq, pc, op, env, peer>>

\* run_build up to the commit of line 2730 raises: nothing is written
RunBuildRefused(bundle_id, rebuild, resume) ==
    LET error == IF rebuild /\ resume THEN "--rebuild and --resume cannot be used together"
                 ELSE IF LoadBundleCheck(db, bundle_id) # "ok" THEN LoadBundleCheck(db, bundle_id)
                 ELSE IF resume /\ latest_resumable_run(db, bundle_id) = 0
                 THEN "No resumable run found for bundle"
                 ELSE "ok"
    IN /\ Idle
       /\ error # "ok"
       /\ outcome' = Result("build_run", "error", 0, error)
       /\ hist' = Note("RunBuildRefused")
       /\ UNCHANGED <<db, tx, seq, pc, op, env, peer>>

\* run_build up to the commit of line 2730: the run is chosen or created
RunBuildOpen(bundle_id, rebuild, resume) ==
    LET build_run_id == IF resume THEN latest_resumable_run(db, bundle_id)
                        ELSE Len(db.build_run) + 1
        completed_passes == IF resume THEN load_completed_passes(db, build_run_id) ELSE {}
        created == create_build_run(db, bundle_id,
                        dataset_version_from_bundle_hash(db.build_bundle[bundle_id].bundle_hash))
        opened == IF resume THEN db
                  ELSE IF rebuild THEN clear_run_outputs(created, build_run_id)
                  ELSE created
    IN /\ Idle
       /\ ~(rebuild /\ resume)
       /\ LoadBundleCheck(db, bundle_id) = "ok"
       /\ resume => latest_resumable_run(db, bundle_id) # 0
       /\ ~resume => Len(db.build_run) < env.max_runs
       /\ db' = opened
       /\ tx' = opened
       /\ pc' = "running"
       /\ op' = [bundle_id |-> bundle_id, build_run_id |-> build_run_id, resume |-> resume,
                 completed_passes |-> completed_passes,
                 i |-> NextPass(1, completed_passes),
                 committed |-> <<>>, pass_name |-> NULL, error |-> NULL]
       /\ outcome' = Result("build_run", "running", build_run_id, NULL)
       /\ hist' = Note("RunBuildOpen")
       /\ UNCHANGED <<seq, env, peer>>

\* one turn of the loop up to the commit: current_pass, the handler, the checkpoint
PassExecute ==
    LET pass_name == PASS_ORDER[op.i]
        handled == pass_handler(pass_name,
                        set_build_run_pass(tx, op.build_run_id, pass_name), seq,
                        op.build_run_id, BundleSourceRuns(tx, op.bundle_id),
                        tx.build_run[op.build_run_id].dataset_version, env.weights)
    IN /\ pc = "running"
       /\ op.i <= Len(PASS_ORDER)
       /\ seq' = handled.sq
       /\ IF handled.error = NULL
          THEN /\ tx' = mark_pass_checkpoint(handled.d, op.build_run_id, pass_name)
               /\ pc' = "executed"
               /\ op' = [op EXCEPT !.pass_name = pass_name]
          ELSE /\ tx' = handled.d
               /\ pc' = "raising"
               /\ op' = [op EXCEPT !.pass_name = pass_name, !.error = handled.error]
       /\ hist' = Note("PassExecute")
       /\ UNCHANGED <<db, outcome, env, peer>>

\* conn.commit() of line 2748
PassCommit ==
    /\ pc = "executed"
    /\ db' = tx
    /\ pc' = "running"
    /\ op' = [op EXCEPT !.committed = Append(@, op.pass_name),
                        !.i = NextPass(op.i + 1, op.completed_passes)]
    /\ hist' = Note("PassCommit")
    /\ UNCHANGED <<tx, seq, outcome, env, peer>>

\* the pass raises after its writes: in the handler, in the checkpoint write
\* or in the commit
PassFault ==
    /\ pc = "executed"
    /\ hist.faults < env.max_faults
    /\ pc' = "raising"
    /\ op' = [op EXCEPT !.error = "pass raised"]
    /\ hist' = [hist EXCEPT !.faults = @ + 1, !.last = "PassFault"]
    /\ UNCHANGED <<db, tx, seq, outcome, env, peer>>

\* _mark_build_built or its commit raises; pass_name is what the loop left
MarkBuiltFault ==
    /\ pc = "running"
    /\ op.i > Len(PASS_ORDER)
    /\ hist.faults < env.max_faults
    /\ pc' = "raising"
    /\ tx' = mark_build_built(tx, op.bundle_id, op.build_run_id)
    /\ op' = [op EXCEPT !.pass_name = PASS_ORDER[Len(PASS_ORDER)],
                        !.error = "marking built raised"]
    /\ hist' = [hist EXCEPT !.faults = @ + 1, !.last = "MarkBuiltFault"]
    /\ UNCHANGED <<db, seq, outcome, env, peer>>

\* lines 2750-2757
MarkBuilt ==
    /\ pc = "running"
    /\ op.i > Len(PASS_ORDER)
    /\ db' = mark_build_built(tx, op.bundle_id, op.build_run_id)
    /\ tx' = db'
    /\ pc' = "idle"
    /\ outcome' = Result("build_run", "built", op.build_run_id, NULL)
    /\ hist' = Note("MarkBuilt")
    /\ UNCHANGED <<seq, op, env, peer>>

\* the except block, lines 2758-2765, when the failure is recorded
HandleFailure ==
    /\ pc = "raising"
    /\ db' = mark_build_failed(db, op.build_run_id, op.pass_name, op.error)
    /\ tx' = db'
    /\ pc' = "idle"
    /\ outcome' = Result("build_run", "raised", op.build_run_id, op.error)
    /\ hist' = Note("HandleFailure")
    /\ UNCHANGED <<seq, op, env, peer>>

\* the except block when _mark_build_failed or its commit raises as well:
\* the inner handler rolls back and the first exception is re-raised
HandleFailureUnrecorded ==
    /\ pc = "raising"
    /\ hist.faults < env.max_faults
    /\ tx' = db
    /\ pc' = "idle"
    /\ outcome' = Result("build_run", "raised", op.build_run_id, op.error)
    /\ hist' = [hist EXCEPT !.faults = @ + 1, !.last = "HandleFailureUnrecorded"]
    /\ UNCHANGED <<db, seq, op, env, peer>>

\* SIGINT or SIGTERM while a pass executes: KeyboardInterrupt is no Exception,
\* so the except block is not entered, and the connection is closed
Interrupt ==
    /\ pc = "executed"
    /\ hist.faults < env.max_faults
    /\ tx' = db
    /\ pc' = "idle"
    /\ outcome' = Result("build_run", "interrupted", op.build_run_id, "KeyboardInterrupt")
    /\ hist' = [hist EXCEPT !.faults = @ + 1, !.last = "Interrupt"]
    /\ UNCHANGED <<db, seq, op, env, peer>>

----------------------------------------------------------------------------
(* verify_build and publish_build *)

\* SUM(probability) of a postcode's final rows of the run
ProbabilitySum(d, build_run_id, postcode) ==
    LET rows == {f \in RunRows(d.postcode_streets_final, build_run_id) : f.postcode = postcode}
    IN SumOver({f.final_id : f \in rows},
               [i \in {f.final_id : f \in rows} |->
                    (CHOOSE f \in rows : f.final_id = i).probability])

\* ORDER BY postcode COLLATE "C", street_name COLLATE "C", usrn NULLS LAST
StreetOrder(a, b) ==
    \/ SeqLess(a.postcode, b.postcode)
    \/ /\ a.postcode = b.postcode
       /\ \/ StrLess(a.street_name, b.street_name)
          \/ (a.street_name = b.street_name /\ UsrnLess(a.usrn, b.usrn))

\* _canonical_hash_query of the three objects: the SHA-256 digest of the
\* serialised rows is taken to be collision free, so the rows stand for it
CanonicalObjects(d, build_run_id) ==
    LET suffix == safe_version_suffix(d.build_run[build_run_id].dataset_version)
        final == OrderBy(RunRows(d.postcode_streets_final, build_run_id), StreetOrder)
        street == OrderBy(UNION {t.rows : t \in ApiTable(d, "postcode_street_lookup", suffix)},
                          StreetOrder)
        lookup == ByPostcode(UNION {t.rows : t \in ApiTable(d, "postcode_lookup", suffix)})
    IN [derived_postcode_streets_final |->
            [i \in DOMAIN final |->
                <<final[i].postcode, final[i].street_name, final[i].usrn,
                  final[i].confidence, final[i].frequency_score, final[i].probability>>],
        api_postcode_street_lookup |->
            [i \in DOMAIN street |->
                <<street[i].postcode, street[i].street_name, street[i].usrn,
                  street[i].confidence, street[i].frequency_score, street[i].probability,
                  street[i].dataset_version>>],
        api_postcode_lookup |->
            [i \in DOMAIN lookup |->
                <<lookup[i].postcode, lookup[i].country_iso2, lookup[i].subdivision_code,
                  lookup[i].multi_street, lookup[i].streets_json, lookup[i].sources,
                  lookup[i].dataset_version>>]]

\* the BuildError verify_build raises, or "ok"
VerifyCheck(d, build_run_id) ==
    IF build_run_id \notin DOMAIN d.build_run THEN "Build run not found"
    ELSE IF d.build_run[build_run_id].status \notin {"built", "published"}
    THEN "Build run must be built before verify"
    ELSE IF \E f \in RunRows(d.postcode_streets_final, build_run_id) :
                ProbabilitySum(d, build_run_id, f.postcode) # ONE
    THEN "Probability sum check failed"
    ELSE LET suffix == safe_version_suffix(d.build_run[build_run_id].dataset_version)
         IN IF \/ ApiTable(d, "postcode_street_lookup", suffix) = {}
               \/ ApiTable(d, "postcode_lookup", suffix) = {}
            THEN "API projection tables not found"
            ELSE "ok"

\* the rows an earlier verify wrote are not deleted
VerifyKeepingRows(d, build_run_id) ==
    LET objects == CanonicalObjects(d, build_run_id)
    IN [d EXCEPT !.canonical_hash =
            @ \cup
            {[build_run_id |-> build_run_id, object_name |-> o,
              row_count |-> Len(objects[o]), sha256 |-> objects[o]] : o \in DOMAIN objects}]

verify_build(d, build_run_id) ==
    LET objects == CanonicalObjects(d, build_run_id)
    IN [d EXCEPT !.canonical_hash =
            {x \in @ : x.build_run_id # build_run_id} \cup
            {[build_run_id |-> build_run_id, object_name |-> o,
              row_count |-> Len(objects[o]), sha256 |-> objects[o]] : o \in DOMAIN objects}]

\* the rows of the run are deleted before the checks are made
VerifyBuildClearingFirst(build_run_id) ==
    /\ Idle
    /\ IF VerifyCheck(db, build_run_id) = "ok"
       THEN /\ db' = verify_build(db, build_run_id)
            /\ outcome' = Result("verify", "verified", build_run_id, NULL)
       ELSE /\ db' = [db EXCEPT !.canonical_hash = {x \in @ : x.build_run_id # build_run_id}]
            /\ outcome' = Result("verify", "error", build_run_id, VerifyCheck(db, build_run_id))
    /\ tx' = db'
    /\ hist' = Note("VerifyBuild")
    /\ UNCHANGED <<seq, pc, op, env, peer>>

VerifyBuild(build_run_id) ==
    /\ Idle
    /\ IF VerifyCheck(db, build_run_id) = "ok"
       THEN /\ db' = verify_build(db, build_run_id)
            /\ outcome' = Result("verify", "verified", build_run_id, NULL)
       ELSE /\ db' = db
            /\ outcome' = Result("verify", "error", build_run_id, VerifyCheck(db, build_run_id))
    /\ tx' = db'
    /\ hist' = Note("VerifyBuild")
    /\ UNCHANGED <<seq, pc, op, env, peer>>

\* the status of the run is not looked at
PublishCheckTablesOnly(d, build_run_id) ==
    IF build_run_id \notin DOMAIN d.build_run THEN "Build run not found"
    ELSE LET suffix == safe_version_suffix(d.build_run[build_run_id].dataset_version)
         IN IF \/ ApiTable(d, "postcode_street_lookup", suffix) = {}
               \/ ApiTable(d, "postcode_lookup", suffix) = {}
            THEN "Cannot publish: versioned api tables are missing"
            ELSE "ok"

\* the BuildError publish_build raises, or "ok"
PublishCheck(d, build_run_id) ==
    IF build_run_id \notin DOMAIN d.build_run THEN "Build run not found"
    ELSE IF d.build_run[build_run_id].status \notin {"built", "published"}
    THEN "Build run must be built before publish"
    ELSE LET suffix == safe_version_suffix(d.build_run[build_run_id].dataset_version)
         IN IF \/ ApiTable(d, "postcode_street_lookup", suffix) = {}
               \/ ApiTable(d, "postcode_lookup", suffix) = {}
            THEN "Cannot publish: versioned api tables are missing"
            ELSE "ok"

\* the publication supersedes the earlier ones: their dataset_publication rows
\* go and their runs and bundles return to built
PublishSupersedingEarlier(d, build_run_id, actor, publish_txid) ==
    LET dataset_version == d.build_run[build_run_id].dataset_version
        suffix == safe_version_suffix(dataset_version)
        Superseded(status) == IF status = "published" THEN "built" ELSE status
    IN [d EXCEPT
        !.api_views = {[kind |-> "postcode_lookup", suffix |-> suffix],
                       [kind |-> "postcode_street_lookup", suffix |-> suffix]},
        !.dataset_publication =
            {[dataset_version |-> dataset_version, build_run_id |-> build_run_id,
              published_at_utc |-> d.now + 1,
              published_by |-> actor, lookup_table_name |-> suffix,
              street_lookup_table_name |-> suffix, publish_txid |-> publish_txid]},
        !.build_run = [q \in DOMAIN @ |->
            IF q = build_run_id
            THEN [@[q] EXCEPT !.status = "published", !.current_pass = "published",
                              !.finished_at_utc = IF @ = 0 THEN d.now + 1 ELSE @]
            ELSE [@[q] EXCEPT !.status = Superseded(@)]],
        !.build_bundle = [b \in DOMAIN @ |->
            IF b = d.build_run[build_run_id].bundle_id
            THEN [@[b] EXCEPT !.status = "published"]
            ELSE [@[b] EXCEPT !.status = Superseded(@)]],
        !.now = @ + 1]

\* api.postcode_lookup alone is replaced
PublishOneAlias(d, build_run_id, actor, publish_txid) ==
    LET dataset_version == d.build_run[build_run_id].dataset_version
        suffix == safe_version_suffix(dataset_version)
    IN [d EXCEPT
        !.api_views = {v \in @ : v.kind # "postcode_lookup"} \cup
                      {[kind |-> "postcode_lookup", suffix |-> suffix]},
        !.dataset_publication =
            {x \in @ : x.dataset_version # dataset_version} \cup
            {[dataset_version |-> dataset_version, build_run_id |-> build_run_id,
              published_at_utc |-> d.now + 1,
              published_by |-> actor, lookup_table_name |-> suffix,
              street_lookup_table_name |-> suffix, publish_txid |-> publish_txid]},
        !.build_run[build_run_id] =
            [@ EXCEPT !.status = "published", !.current_pass = "published",
                      !.finished_at_utc = IF @ = 0 THEN d.now + 1 ELSE @],
        !.build_bundle[d.build_run[build_run_id].bundle_id].status = "published",
        !.now = @ + 1]

publish_build(d, build_run_id, actor, publish_txid) ==
    LET dataset_version == d.build_run[build_run_id].dataset_version
        suffix == safe_version_suffix(dataset_version)
    IN [d EXCEPT
        !.api_views = {[kind |-> "postcode_lookup", suffix |-> suffix],
                       [kind |-> "postcode_street_lookup", suffix |-> suffix]},
        !.dataset_publication =
            {x \in @ : x.dataset_version # dataset_version} \cup
            {[dataset_version |-> dataset_version, build_run_id |-> build_run_id,
              published_at_utc |-> d.now + 1,
              published_by |-> actor, lookup_table_name |-> suffix,
              street_lookup_table_name |-> suffix, publish_txid |-> publish_txid]},
        !.build_run[build_run_id] =
            [@ EXCEPT !.status = "published", !.current_pass = "published",
                      \* COALESCE(finished_at_utc, now())
                      !.finished_at_utc = IF @ = 0 THEN d.now + 1 ELSE @],
        !.build_bundle[d.build_run[build_run_id].bundle_id].status = "published",
        !.now = @ + 1]

\* publish_txid is txid_current(); only that it grows from one publication to
\* the next is kept
PublishBuild(build_run_id) ==
    /\ Idle
    /\ IF PublishCheck(db, build_run_id) = "ok"
       THEN /\ seq.txid < env.max_publications
            /\ db' = publish_build(db, build_run_id, "operator", seq.txid + 1)
            /\ seq' = [seq EXCEPT !.txid = @ + 1]
            /\ outcome' = Result("publish", "published", build_run_id, NULL)
       ELSE /\ db' = db
            /\ seq' = seq
            /\ outcome' = Result("publish", "error", build_run_id, PublishCheck(db, build_run_id))
    /\ tx' = db'
    /\ hist' = Note("PublishBuild")
    /\ UNCHANGED <<pc, op, env, peer>>

----------------------------------------------------------------------------
(* The pipeline: bundles, build runs, verification, publication *)

\* a core_ni bundle that also lists two ppd runs
FullManifest ==
    [build_profile |-> "core_ni",
     source_runs |-> << <<"ppd", <<10, 11>>>>, <<"onspd", <<1>>>>, <<"os_open_usrn", <<2>>>>,
                        <<"os_open_names", <<3>>>>, <<"os_open_roads", <<4>>>>,
                        <<"os_open_uprn", <<5>>>>, <<"os_open_lids", <<6>>>>,
                        <<"nsul", <<7>>>>, <<"osni_gazetteer", <<8>>>>,
                        <<"dfi_highway", <<9>>>> >>]

\* a gb_core bundle whose onspd run recorded no row: pass 0a rejects it
EmptyOnspdManifest ==
    [build_profile |-> "gb_core",
     source_runs |-> << <<"onspd", <<12>>>>, <<"os_open_usrn", <<2>>>>,
                        <<"os_open_names", <<3>>>>, <<"os_open_roads", <<4>>>>,
                        <<"os_open_uprn", <<5>>>>, <<"os_open_lids", <<6>>>>,
                        <<"nsul", <<7>>>> >>]

\* frequency weights as configured, in units of 0.00001
ConfiguredWeights ==
    [t \in Range(CANDIDATE_TYPES) |->
        CASE t = "names_postcode_feature" -> 50000  [] t = "oli_toid_usrn" -> 100000
          [] t = "uprn_usrn" -> 100000              [] t = "spatial_os_open_roads" -> 30000
          [] t = "osni_gazetteer_direct" -> 60000   [] t = "spatial_dfi_highway" -> 30000
          [] t = "ppd_parse_matched" -> 40000       [] t = "ppd_parse_unmatched" -> 20000]

NoCommand ==
    [bundle_id |-> 0, build_run_id |-> 0, resume |-> FALSE, completed_passes |-> {},
     i |-> 0, committed |-> <<>>, pass_name |-> NULL, error |-> NULL]

\* no second process
NoPeer == [pc |-> "idle", op |-> NoCommand, switches |-> 0]

InitWith(environment) ==
    /\ db = EmptyDb
    /\ tx = EmptyDb
    /\ seq = [candidate_id |-> 0, final_id |-> 0, txid |-> 0]
    /\ pc = "idle"
    /\ op = NoCommand
    /\ outcome = Result("none", "none", 0, NULL)
    /\ env = environment
    /\ hist = [faults |-> 0, last |-> "Init", created |-> <<>>]
    /\ peer = NoPeer

Init ==
    InitWith([manifests |-> {FullManifest, EmptyOnspdManifest}, weights |-> ConfiguredWeights,
              max_bundles |-> MaxBundles, max_runs |-> MaxRuns, max_faults |-> MaxFaults,
              max_publications |-> MaxPublications, max_switches |-> 0])

RunBuild ==
    \E bundle_id \in 1..env.max_bundles, rebuild \in BOOLEAN, resume \in BOOLEAN :
        \/ RunBuildRefused(bundle_id, rebuild, resume)
        \/ RunBuildOpen(bundle_id, rebuild, resume)

Next ==
    \/ CreateBuildBundle
    \/ RunBuild
    \/ PassExecute
    \/ PassCommit
    \/ PassFault
    \/ MarkBuilt
    \/ MarkBuiltFault
    \/ HandleFailure
    \/ HandleFailureUnrecorded
    \/ Interrupt
    \/ \E build_run_id \in 1..env.max_runs : VerifyBuild(build_run_id)
    \/ \E build_run_id \in 1..env.max_runs : PublishBuild(build_run_id)

Spec == Init /\ [][Next]_vars

(* run_build alone, over two runs of one bundle *)

InitBuild ==
    InitWith([manifests |-> {FullManifest}, weights |-> ConfiguredWeights,
              max_bundles |-> MaxBundles, max_runs |-> MaxBuildRuns,
              max_faults |-> MaxBuildFaults, max_publications |-> 0, max_switches |-> 0])

NextBuild ==
    \/ CreateBuildBundle
    \/ RunBuild
    \/ PassExecute
    \/ PassCommit
    \/ PassFault
    \/ MarkBuilt
    \/ MarkBuiltFault
    \/ HandleFailure

SpecBuild == InitBuild /\ [][NextBuild]_vars

(* Pass 8 alone: a run that failed in 8_finalisation is resumed, over drawn *)
(* candidate multisets and weight tables                                    *)

\* the loop of run_build from position i to position last without an injected
\* failure, each pass with its current_pass, handler and checkpoint
RECURSIVE RunPasses(_, _, _, _, _, _, _)
RunPasses(d, sq, bundle_id, build_run_id, i, last, raw_weights) ==
    IF i > last THEN Handled(d, sq, NULL)
    ELSE LET pass_name == PASS_ORDER[i]
             handled == pass_handler(pass_name, set_build_run_pass(d, build_run_id, pass_name),
                            sq, build_run_id, BundleSourceRuns(d, bundle_id),
                            d.build_run[build_run_id].dataset_version, raw_weights)
         IN IF handled.error # NULL THEN Handled(d, sq, handled.error)
            ELSE RunPasses(mark_pass_checkpoint(handled.d, build_run_id, pass_name),
                           handled.sq, bundle_id, build_run_id, i + 1, last, raw_weights)

\* bundle 1 of FullManifest and its run 1
CreatedRun ==
    LET h == bundle_hash(FullManifest.build_profile, FullManifest.source_runs)
        bundled == [EmptyDb EXCEPT
                      !.build_bundle = <<[build_profile |-> FullManifest.build_profile,
                                          bundle_hash |-> h, status |-> "created"]>>,
                      !.build_bundle_source = BundleSourceRows(1, FullManifest)]
    IN create_build_run(bundled, 1, dataset_version_from_bundle_hash(h))

\* run 1 after passes 0a to 2_gb_canonical_streets
StagedRun ==
    RunPasses(CreatedRun, [candidate_id |-> 0, final_id |-> 0, txid |-> 0], 1, 1, 1, 4,
              ConfiguredWeights).d

DrawnTypes == {"names_postcode_feature", "uprn_usrn"}

\* the candidates drawn from: (postcode, street, usrn, type, confidence)
DrawnKinds ==
    << <<PcM1, "HIGH STREET", NO_USRN, "names_postcode_feature", "medium">>,
       <<PcM1, "MILL LANE", NO_USRN, "names_postcode_feature", "medium">>,
       <<PcM1, "PARK VIEW", NO_USRN, "uprn_usrn", "high">>,
       <<PcM1, "HIGH STREET", 100, "uprn_usrn", "high">>,
       <<PcM2, "MAIN ROAD", NO_USRN, "names_postcode_feature", "medium">>,
       <<PcM2, "MAIN ROAD", NO_USRN, "uprn_usrn", "high">> >>

\* weights in units of 0.00001: 0.00004 is stored as 0.0000
WeightChoices == {4, 25000, 100000}

DrawnCandidate(candidate_id, kind) ==
    [candidate_id |-> candidate_id, produced_build_run_id |-> 1,
     postcode |-> postcode_display(kind[1]),
     street_name_raw |-> kind[2], street_name_canonical |-> kind[2],
     usrn |-> kind[3], candidate_type |-> kind[4], confidence |-> kind[5],
     evidence_ref |-> EvidenceRef("drawn:", "d1", candidate_id, NULL),
     source_name |-> IF kind[4] = "uprn_usrn" THEN "os_open_uprn" ELSE "os_open_names",
     ingest_run_id |-> IF kind[4] = "uprn_usrn" THEN 5 ELSE 3,
     evidence_json |-> Evidence(NULL, NULL, kind[3], 0, NULL, NULL)]

InitFinal ==
    \E n \in 0..MaxCandidates :
      \E drawn \in [1..n -> DOMAIN DrawnKinds] :
        \E weights \in [DrawnTypes -> WeightChoices] :
          /\ \A i \in 1..(n - 1) : drawn[i] <= drawn[i + 1]
          /\ db = [StagedRun EXCEPT
                     !.postcode_street_candidates =
                        {DrawnCandidate(i, DrawnKinds[drawn[i]]) : i \in 1..n},
                     !.build_pass_checkpoint = {<<1, PASS_ORDER[i]>> : i \in 1..9},
                     !.build_run[1] = [@ EXCEPT !.status = "failed",
                                                !.current_pass = "8_finalisation",
                                                !.error_text = "pass raised"]]
          /\ tx = db
          /\ seq = [candidate_id |-> n, final_id |-> 0, txid |-> 0]
          /\ pc = "idle"
          /\ op = NoCommand
          /\ outcome = Result("none", "none", 0, NULL)
          /\ env = [manifests |-> {FullManifest},
                    weights |-> [t \in Range(CANDIDATE_TYPES) |->
                                    IF t \in DrawnTypes THEN weights[t]
                                    ELSE ConfiguredWeights[t]],
                    max_bundles |-> 1, max_runs |-> 1, max_faults |-> 0,
                    max_publications |-> 0, max_switches |-> 0]
          /\ hist = [faults |-> 0, last |-> "Init", created |-> <<FullManifest>>]
          /\ peer = NoPeer

NextFinal ==
    \/ RunBuild
    \/ PassExecute
    \/ PassCommit
    \/ MarkBuilt
    \/ HandleFailure

SpecFinal == InitFinal /\ [][NextFinal]_vars

(* Pass 8 alone, over weights objects: a run that failed in 8_finalisation  *)
(* is resumed with the weights file changed                                  *)

\* weights in units of 0.00001
WeightValues == {0 - 1, 0, 4, 5, 25000}

\* weights objects: the configured one with the weights of two types
\* replaced, with one type left out, or with one key added
WeightObjects ==
    LET replaced == {[t \in Range(CANDIDATE_TYPES) |->
                        IF t \in DrawnTypes THEN w[t] ELSE ConfiguredWeights[t]] :
                     w \in [DrawnTypes -> WeightValues]}
    IN replaced
       \cup {[t \in Range(CANDIDATE_TYPES) \ {"ppd_parse_unmatched"} |-> r[t]] : r \in replaced}
       \cup {[t \in Range(CANDIDATE_TYPES) \cup {"spatial_other"} |->
                IF t = "spatial_other" THEN v ELSE ConfiguredWeights[t]] : v \in WeightValues}

InitWeights ==
    \E weights \in WeightObjects :
        \E first \in DOMAIN DrawnKinds, second \in DOMAIN DrawnKinds :
          /\ first < second
          /\ db = [StagedRun EXCEPT
                     !.postcode_street_candidates =
                        {DrawnCandidate(1, DrawnKinds[first]),
                         DrawnCandidate(2, DrawnKinds[second])},
                     !.build_pass_checkpoint = {<<1, PASS_ORDER[i]>> : i \in 1..9},
                     !.build_run[1] = [@ EXCEPT !.status = "failed",
                                                !.current_pass = "8_finalisation",
                                                !.error_text = "pass raised"]]
          /\ tx = db
          /\ seq = [candidate_id |-> 2, final_id |-> 0, txid |-> 0]
          /\ pc = "idle"
          /\ op = NoCommand
          /\ outcome = Result("none", "none", 0, NULL)
          /\ env = [manifests |-> {FullManifest}, weights |-> weights,
                    max_bundles |-> 1, max_runs |-> 1, max_faults |-> 0,
                    max_publications |-> 0, max_switches |-> 0]
          /\ hist = [faults |-> 0, last |-> "Init", created |-> <<FullManifest>>]
          /\ peer = NoPeer

SpecWeights == InitWeights /\ [][NextFinal]_vars

(* verify_build and publish_build alone, over databases as verify_build may *)
(* find them: the outputs of run 1 with the run in each status, with        *)
(* projection tables dropped or a probability changed by statements from   *)
(* outside the pipeline, and with canonical_hash rows of an earlier verify  *)

\* run 1 with its ten passes committed
CompletedRun ==
    RunPasses(CreatedRun, [candidate_id |-> 0, final_id |-> 0, txid |-> 0], 1, 1, 1, 10,
              ConfiguredWeights).d

\* the probability of the run's first final row changed by delta
WithProbabilityChanged(d, delta) ==
    LET rows == RunRows(d.postcode_streets_final, 1)
        first == CHOOSE f \in rows : \A g \in rows : f.final_id <= g.final_id
    IN IF delta = 0 \/ rows = {} THEN d
       ELSE [d EXCEPT !.postcode_streets_final =
                (@ \ {first}) \cup {[first EXCEPT !.probability = @ + delta]}]

\* the canonical_hash rows an earlier verify left: none, those of the
\* database as it is, or those of different contents
EarlierHashRows(d, earlier) ==
    IF earlier = "none" THEN {}
    ELSE IF earlier = "current" THEN verify_build(d, 1).canonical_hash
    ELSE {[x EXCEPT !.row_count = 0, !.sha256 = <<>>] : x \in verify_build(d, 1).canonical_hash}

InitVerify ==
    \E status \in {"started", "failed", "built"},
       dropped \in SUBSET {"postcode_street_lookup", "postcode_lookup"},
       delta \in {0 - 1, 0, 1},
       earlier \in {"none", "current", "stale"},
       run \in {CompletedRun} :
        LET completed == IF status = "built" THEN mark_build_built(run, 1, 1)
                         ELSE IF status = "failed"
                         THEN mark_build_failed(run, 1, "8_finalisation", "failed to mark built")
                         ELSE run
            changed == WithProbabilityChanged(
                           [completed EXCEPT !.api_tables = {t \in @ : t.kind \notin dropped}],
                           delta)
        IN /\ db = [changed EXCEPT !.canonical_hash = EarlierHashRows(changed, earlier)]
           /\ tx = db
           /\ seq = [candidate_id |-> 0, final_id |-> 0, txid |-> 0]
           /\ pc = "idle"
           /\ op = NoCommand
           /\ outcome = Result("none", "none", 0, NULL)
           /\ env = [manifests |-> {FullManifest}, weights |-> ConfiguredWeights,
                     max_bundles |-> 1, max_runs |-> 2, max_faults |-> 0,
                     max_publications |-> 1, max_switches |-> 0]
           /\ hist = [faults |-> 0, last |-> "Init", created |-> <<FullManifest>>]
           /\ peer = NoPeer

NextVerify ==
    \/ \E build_run_id \in 1..env.max_runs : VerifyBuild(build_run_id)
    \/ \E build_run_id \in 1..env.max_runs : PublishBuild(build_run_id)

SpecVerify == InitVerify /\ [][NextVerify]_vars

(* create_build_bundle alone, over manifests that load_bundle_manifest accepts *)

GbCoreRuns ==
    << <<"onspd", <<1>>>>, <<"os_open_usrn", <<2>>>>, <<"os_open_names", <<3>>>>,
       <<"os_open_roads", <<4>>>>, <<"os_open_uprn", <<5>>>>, <<"os_open_lids", <<6>>>>,
       <<"nsul", <<7>>>> >>

Reversed(s) == [i \in DOMAIN s |-> s[Len(s) + 1 - i]]

\* the slot of source_name replaced by run_ids
WithSlot(source_runs, source_name, run_ids) ==
    [i \in DOMAIN source_runs |->
        IF source_runs[i][1] = source_name THEN <<source_name, run_ids>> ELSE source_runs[i]]

WithoutSlot(source_runs, source_name) ==
    SelectSeq(source_runs, LAMBDA slot : slot[1] # source_name)

Manifest(build_profile, source_runs) ==
    [build_profile |-> build_profile, source_runs |-> source_runs]

BundleManifests ==
    { Manifest("gb_core", GbCoreRuns),
      Manifest("gb_core", Reversed(GbCoreRuns)),
      Manifest("gb_core_ppd", Append(GbCoreRuns, <<"ppd", <<10, 11>>>>)),
      Manifest("gb_core_ppd", <<<<"ppd", <<11, 10>>>>>> \o Reversed(GbCoreRuns)),
      Manifest("gb_core_ppd", Append(GbCoreRuns, <<"ppd", <<10>>>>)),
      \* a slot the profile does not require
      Manifest("gb_core", Append(GbCoreRuns, <<"ppd", <<10, 11>>>>)),
      Manifest("gb_core", Append(GbCoreRuns, <<"dfi_highway", <<8>>>>)),
      Manifest("gb_core", Append(GbCoreRuns, <<"dfi_highway", <<9, 13>>>>)),
      FullManifest,
      EmptyOnspdManifest,
      \* manifests of lines 193-227
      Manifest("gb_core", WithSlot(GbCoreRuns, "onspd", <<99>>)),
      Manifest("gb_core", WithSlot(GbCoreRuns, "onspd", <<2>>)),
      Manifest("gb_core", WithSlot(GbCoreRuns, "nsul", <<7, 7>>)),
      Manifest("gb_core_ppd", Append(GbCoreRuns, <<"ppd", <<10, 99>>>>)),
      Manifest("gb_core_ppd", GbCoreRuns),
      Manifest("core_ni", WithoutSlot(FullManifest.source_runs, "ppd")) }

InitBundle ==
    InitWith([manifests |-> BundleManifests, weights |-> ConfiguredWeights,
              max_bundles |-> MaxCreatedBundles, max_runs |-> 0, max_faults |-> 0,
              max_publications |-> 0, max_switches |-> 0])

NextBundle == CreateBuildBundle

SpecBundle == InitBundle /\ [][NextBundle]_vars

(* Passes 5 and 6: a run that failed in 5_gb_spatial_fallback is resumed,   *)
(* over drawn Open Roads, OSNI and DfI stage rows and drawn candidates of   *)
(* passes 3 and 4                                                           *)

\* the candidates passes 3 and 4 left: (postcode, street, usrn, type, confidence)
SpatialKinds ==
    << <<PcM1, "PARK VIEW", NO_USRN, "uprn_usrn", "high">>,
       <<PcM2, "MAIN ROAD", NO_USRN, "names_postcode_feature", "medium">>,
       <<PcBT2, "SHORE ROAD", NO_USRN, "names_postcode_feature", "medium">> >>

InitSpatial ==
    \E roads \in {{}, {"s1"}, {"s2", "s3"}, {"s1", "s2", "s3"}},
       osni \in SUBSET {"o1"},
       dfi \in SUBSET {"d1", "d2", "d3"},
       kinds \in SUBSET DOMAIN SpatialKinds :
        /\ db = [StagedRun EXCEPT
                   !.stage_open_roads_segment = {r \in @ : r.segment_id \in roads},
                   !.stage_osni_street_point = {r \in @ : r.feature_id \in osni},
                   !.stage_dfi_road_segment = {r \in @ : r.segment_id \in dfi},
                   !.postcode_street_candidates =
                        {DrawnCandidate(k, SpatialKinds[k]) : k \in kinds},
                   !.build_pass_checkpoint = {<<1, PASS_ORDER[i]>> : i \in 1..6},
                   !.build_run[1] = [@ EXCEPT !.status = "failed",
                                              !.current_pass = "5_gb_spatial_fallback",
                                              !.error_text = "pass raised"]]
        /\ tx = db
        /\ seq = [candidate_id |-> Len(SpatialKinds), final_id |-> 0, txid |-> 0]
        /\ pc = "idle"
        /\ op = NoCommand
        /\ outcome = Result("none", "none", 0, NULL)
        /\ env = [manifests |-> {FullManifest}, weights |-> ConfiguredWeights,
                  max_bundles |-> 1, max_runs |-> 1, max_faults |-> 0,
                  max_publications |-> 0, max_switches |-> 0]
        /\ hist = [faults |-> 0, last |-> "Init", created |-> <<FullManifest>>]
        /\ peer = NoPeer

NextResume ==
    \/ RunBuild
    \/ PassExecute
    \/ PassCommit
    \/ MarkBuilt

SpecSpatial == InitSpatial /\ [][NextResume]_vars

(* Pass 2: a run that failed in 2_gb_canonical_streets is resumed, over     *)
(* drawn Open Names features, TOID links and a direct USRN row              *)

\* run 1 after passes 0a to 1_onspd_backbone
BackboneRun ==
    RunPasses(CreatedRun, [candidate_id |-> 0, final_id |-> 0, txid |-> 0], 1, 1, 1, 3,
              ConfiguredWeights).d

FeatureNames == {"High Street", "HIGH STREET", "Park View"}

InitStreets ==
    \E names \in [{"f1", "f2", "f3"} -> FeatureNames],
       third \in {"T1", NULL},
       links \in SUBSET {<<"T1", 300>>, <<"T1", 100>>},
       direct \in SUBSET {100} :
        /\ db = [BackboneRun EXCEPT
                   !.stage_open_names_road_feature =
                        {[build_run_id |-> 1, feature_id |-> f,
                          toid |-> IF f = "f3" THEN third ELSE "T1",
                          postcode_norm |-> postcode_norm(PcM1),
                          street_name_raw |-> names[f],
                          street_name_casefolded |-> street_casefold(names[f]),
                          ingest_run_id |-> 3] : f \in DOMAIN names},
                   !.stage_oli_toid_usrn =
                        {[build_run_id |-> 1, toid |-> l[1], usrn |-> l[2],
                          ingest_run_id |-> 6] : l \in links},
                   !.stage_streets_usrn_input =
                        {[build_run_id |-> 1, usrn |-> u, street_name |-> "Main Road",
                          street_name_casefolded |-> street_casefold("Main Road"),
                          usrn_run_id |-> 2] : u \in direct},
                   !.build_pass_checkpoint = {<<1, PASS_ORDER[i]>> : i \in 1..3},
                   !.build_run[1] = [@ EXCEPT !.status = "failed",
                                              !.current_pass = "2_gb_canonical_streets",
                                              !.error_text = "pass raised"]]
        /\ tx = db
        /\ seq = [candidate_id |-> 0, final_id |-> 0, txid |-> 0]
        /\ pc = "idle"
        /\ op = NoCommand
        /\ outcome = Result("none", "none", 0, NULL)
        /\ env = [manifests |-> {FullManifest}, weights |-> ConfiguredWeights,
                  max_bundles |-> 1, max_runs |-> 1, max_faults |-> 0,
                  max_publications |-> 0, max_switches |-> 0]
        /\ hist = [faults |-> 0, last |-> "Init", created |-> <<FullManifest>>]
        /\ peer = NoPeer

SpecStreets == InitStreets /\ [][NextResume]_vars

(* Pass 0b over bundles of one, two or three ppd runs *)

PpdSlots ==
    {<<10>>, <<11>>, <<14>>, <<10, 11>>, <<11, 10>>, <<10, 14>>, <<14, 11>>,
     <<10, 11, 14>>, <<14, 11, 10>>}

InitPpd ==
    InitWith([manifests |-> {Manifest("gb_core_ppd", Append(GbCoreRuns, <<"ppd", slot>>)) :
                                slot \in PpdSlots},
              weights |-> ConfiguredWeights,
              max_bundles |-> 1, max_runs |-> 1, max_faults |-> 0,
              max_publications |-> 0, max_switches |-> 0])

NextPpd ==
    \/ CreateBuildBundle
    \/ RunBuild
    \/ PassExecute
    \/ PassCommit
    \/ MarkBuilt

SpecPpd == InitPpd /\ [][NextPpd]_vars

(* load_bundle_manifest alone, over manifest files *)

\* the JSON payloads of the manifest files: the seven gb_core slots as UUID
\* strings, with the onspd slot varied, a ppd slot or none, and further slots
ManifestPayloads ==
    LET onspd == {JsonString(1), JsonList(<<1>>), JsonList(<<>>), JsonList(<<1, 12>>),
                  JsonString(0), JsonList(<<1, 0>>), JsonList(<<0 - 1>>), JsonNumber}
        ppd == {<<>>, <<<<"ppd", JsonString(10)>>>>, <<<<"ppd", JsonList(<<10, 11>>)>>>>,
                <<<<"ppd", JsonList(<<11, 10>>)>>>>, <<<<"ppd", JsonList(<<>>)>>>>}
        core(o) == [i \in DOMAIN GbCoreRuns |->
                      <<GbCoreRuns[i][1],
                        IF GbCoreRuns[i][1] = "onspd" THEN o
                        ELSE JsonString(GbCoreRuns[i][2][1])>>]
        further(o) == {core(o),
                       core(o) \o << <<"osni_gazetteer", JsonString(8)>>,
                                     <<"dfi_highway", JsonList(<<9, 13>>)>> >>,
                       core(o) \o << <<"os_open_linked_identifiers", JsonString(6)>> >>,
                       SelectSeq(core(o), LAMBDA slot : slot[1] # "nsul")}
    IN UNION {{[build_profile |-> build_profile, source_runs_type |-> "object",
                source_runs |-> p \o slots] :
                    build_profile \in DOMAIN BUILD_PROFILES \cup {"gb_full"},
                    p \in ppd, slots \in further(o)} : o \in onspd}
       \cup {[build_profile |-> "gb_core", source_runs_type |-> "array", source_runs |-> <<>>]}

LoadBundleManifest ==
    /\ Idle
    /\ \E payload \in ManifestPayloads :
          LET loaded == load_bundle_manifest(payload)
          IN outcome' = [cmd |-> "load_bundle_manifest",
                         status |-> IF loaded.error = NULL THEN "loaded" ELSE "error",
                         id |-> 0, error |-> loaded.error, payload |-> payload,
                         manifest |-> Manifest(payload.build_profile, loaded.source_runs)]
    /\ hist' = Note("LoadBundleManifest")
    /\ UNCHANGED <<db, tx, seq, pc, op, env, peer>>

InitManifest ==
    InitWith([manifests |-> {}, weights |-> ConfiguredWeights,
              max_bundles |-> 0, max_runs |-> 0, max_faults |-> 0,
              max_publications |-> 0, max_switches |-> 0])

NextManifest == LoadBundleManifest

SpecManifest == InitManifest /\ [][NextManifest]_vars

(* Pass 8 alone, with the configured weights, over the candidates of up to  *)
(* four streets of one postcode: a run that failed in 8_finalisation is     *)
(* resumed                                                                  *)

\* the candidates drawn from: one of Open Names and one of the UPRN link for
\* each of four streets of a postcode
StreetKinds ==
    << <<PcM1, "FALLS ROAD", NO_USRN, "names_postcode_feature", "medium">>,
       <<PcM1, "FALLS ROAD", NO_USRN, "uprn_usrn", "high">>,
       <<PcM1, "HIGH STREET", NO_USRN, "names_postcode_feature", "medium">>,
       <<PcM1, "HIGH STREET", NO_USRN, "uprn_usrn", "high">>,
       <<PcM1, "MAIN ROAD", NO_USRN, "names_postcode_feature", "medium">>,
       <<PcM1, "MAIN ROAD", NO_USRN, "uprn_usrn", "high">>,
       <<PcM1, "MILL LANE", NO_USRN, "names_postcode_feature", "medium">>,
       <<PcM1, "MILL LANE", NO_USRN, "uprn_usrn", "high">> >>

InitShares ==
    \E drawn \in SUBSET DOMAIN StreetKinds :
        /\ db = [StagedRun EXCEPT
                   !.postcode_street_candidates =
                      {DrawnCandidate(i, StreetKinds[i]) : i \in drawn},
                   !.build_pass_checkpoint = {<<1, PASS_ORDER[i]>> : i \in 1..9},
                   !.build_run[1] = [@ EXCEPT !.status = "failed",
                                              !.current_pass = "8_finalisation",
                                              !.error_text = "pass raised"]]
        /\ tx = db
        /\ seq = [candidate_id |-> Len(StreetKinds), final_id |-> 0, txid |-> 0]
        /\ pc = "idle"
        /\ op = NoCommand
        /\ outcome = Result("none", "none", 0, NULL)
        /\ env = [manifests |-> {FullManifest}, weights |-> ConfiguredWeights,
                  max_bundles |-> 1, max_runs |-> 1, max_faults |-> 0,
                  max_publications |-> 0, max_switches |-> 0]
        /\ hist = [faults |-> 0, last |-> "Init", created |-> <<FullManifest>>]
        /\ peer = NoPeer

SpecShares == InitShares /\ [][NextResume]_vars

(* postcode_norm and postcode_display alone, over texts, and the join of a   *)
(* staged row to the canonical postcode of an ONSPD row; one call is        *)
(* followed from each text                                                  *)

\* a space, a punctuation mark, a digit, a lower-case and an upper-case letter
TextChars == {" ", "-", "1", "a", "B"}

Texts == UNION {[1..n -> TextChars] : n \in 0..MaxTextLen}

\* the texts of the rows joined to an ONSPD row: no punctuation but the space
StagedTexts == {text \in Texts : \A i \in DOMAIN text : text[i] # "-"}

NotCalled == outcome.cmd = "none"

\* the join condition of passes 3 to 7 between core.postcodes.postcode and a
\* stage table's postcode_norm; a NULL postcode_norm equals nothing
JoinsPostcode(postcode, staged_postcode_norm) ==
    /\ staged_postcode_norm # NoText
    /\ StripSpaces(postcode) = staged_postcode_norm

PostcodeNorm ==
    /\ Idle
    /\ NotCalled
    /\ outcome' = [cmd |-> "postcode_norm", status |-> "returned", id |-> 0, error |-> NULL,
                   value |-> env.value, result |-> postcode_norm(env.value)]
    /\ hist' = Note("PostcodeNorm")
    /\ UNCHANGED <<db, tx, seq, pc, op, env, peer>>

PostcodeDisplay ==
    /\ Idle
    /\ NotCalled
    /\ outcome' = [cmd |-> "postcode_display", status |-> "returned", id |-> 0, error |-> NULL,
                   value |-> env.value, result |-> postcode_display(env.value)]
    /\ hist' = Note("PostcodeDisplay")
    /\ UNCHANGED <<db, tx, seq, pc, op, env, peer>>

\* the ONSPD row of text env.value is staged and becomes a core.postcodes row
\* (passes 0b and 1); a row of another source with the text staged_value is
\* staged and joined to it
JoinStagedRow ==
    /\ Idle
    /\ NotCalled
    /\ postcode_norm(env.value) # NoText
    /\ \E staged_value \in StagedTexts :
          /\ postcode_norm(staged_value) # NoText
          /\ outcome' = [cmd |-> "join", status |-> "returned", id |-> 0, error |-> NULL,
                         value |-> env.value, staged_value |-> staged_value,
                         postcode |-> postcode_display(env.value),
                         result |-> JoinsPostcode(postcode_display(env.value),
                                                  postcode_norm(staged_value))]
    /\ hist' = Note("JoinStagedRow")
    /\ UNCHANGED <<db, tx, seq, pc, op, env, peer>>

InitText ==
    \E value \in Texts :
        InitWith([manifests |-> {}, weights |-> ConfiguredWeights,
                  max_bundles |-> 0, max_runs |-> 0, max_faults |-> 0,
                  max_publications |-> 0, max_switches |-> 0, value |-> value])

NextText ==
    \/ PostcodeNorm
    \/ PostcodeDisplay
    \/ JoinStagedRow

SpecText == InitText /\ [][NextText]_vars

(* Publication: two bundles, two runs, verification and repeated publication *)

InitPublish ==
    InitWith([manifests |-> {FullManifest, Manifest("gb_core", GbCoreRuns)},
              weights |-> ConfiguredWeights,
              max_bundles |-> MaxPublishBundles, max_runs |-> MaxPublishRuns,
              max_faults |-> 0, max_publications |-> MaxRepublications, max_switches |-> 0])

NextPublish ==
    \/ CreateBuildBundle
    \/ RunBuild
    \/ PassExecute
    \/ PassCommit
    \/ MarkBuilt
    \/ \E build_run_id \in 1..env.max_runs : VerifyBuild(build_run_id)
    \/ \E build_run_id \in 1..env.max_runs : PublishBuild(build_run_id)

SpecPublish == InitPublish /\ [][NextPublish]_vars

(* Two run_build processes.  Each has its own connection; the statements of *)
(* one are not seen by the other before they are committed.  The row lock   *)
(* on the bundle is held from _load_bundle to the commit of line 2730, which *)
(* is within RunBuildOpen, and the row lock on the run from                  *)
(* _set_build_run_pass to the commit of the pass; the processes take turns  *)
(* where neither holds a lock or an open transaction: between two commits.   *)
(* Transactions of the two that overlap in time are left out, and each      *)
(* invocation is followed through its first MaxConcurrentPasses passes.      *)

\* the process taking steps is between two transactions, and so is the other:
\* the other one goes on, and finds the database as committed
Switch ==
    /\ pc \in {"idle", "running"}
    /\ peer.pc \in {"idle", "running"}
    /\ pc = "running" \/ peer.pc = "running"
    /\ peer.switches < env.max_switches
    /\ tx = db
    /\ pc' = peer.pc
    /\ op' = peer.op
    /\ peer' = [pc |-> pc, op |-> op, switches |-> peer.switches + 1]
    /\ hist' = Note("Switch")
    /\ UNCHANGED <<db, tx, seq, outcome, env>>

InitConcurrent ==
    InitWith([manifests |-> {FullManifest}, weights |-> ConfiguredWeights,
              max_bundles |-> MaxBundles, max_runs |-> MaxConcurrentRuns,
              max_faults |-> 0, max_publications |-> 0,
              max_switches |-> MaxSwitches])

NextConcurrent ==
    \/ CreateBuildBundle
    \/ RunBuild
    \/ Len(op.committed) < MaxConcurrentPasses /\ PassExecute
    \/ PassCommit
    \/ Switch

SpecConcurrent == InitConcurrent /\ [][NextConcurrent]_vars

----------------------------------------------------------------------------
(* Properties *)

\* the final rows of a postcode of a run
FinalOf(build_run_id, postcode) ==
    {f \in RunRows(db.postcode_streets_final, build_run_id) : f.postcode = postcode}

\* SUM(frequency_score) of a postcode's final rows
ScoreSum(build_run_id, postcode) ==
    LET rows == FinalOf(build_run_id, postcode)
    IN SumOver({f.final_id : f \in rows},
               [i \in {f.final_id : f \in rows} |->
                    (CHOOSE f \in rows : f.final_id = i).frequency_score])

\* the sum of the 4-decimal roundings of frequency_score / total of a postcode
RoundedShareSum(build_run_id, postcode) ==
    LET rows == FinalOf(build_run_id, postcode)
    IN SumOver({f.final_id : f \in rows},
               [i \in {f.final_id : f \in rows} |->
                    RoundedQuotient((CHOOSE f \in rows : f.final_id = i).frequency_score,
                                    ScoreSum(build_run_id, postcode))])

\* C1: once pass 8_finalisation has committed for a build run, the 4-decimal
\* probabilities of every postcode that has final rows sum to exactly 1.0000;
\* every row holds its share rounded half-up, except that one row of greatest
\* score holds its rounded share plus 1.0000 minus the rounded sum
C1_ProbabilitiesSumToOne ==
    \A r \in DOMAIN db.build_run :
        <<r, "8_finalisation">> \in db.build_pass_checkpoint =>
            \A f \in RunRows(db.postcode_streets_final, r) :
                LET rows == FinalOf(r, f.postcode)
                    total == ScoreSum(r, f.postcode)
                    residual == ONE - RoundedShareSum(r, f.postcode)
                    corrected == {g \in rows :
                                    g.probability # RoundedQuotient(g.frequency_score, total)}
                IN /\ ProbabilitySum(db, r, f.postcode) = ONE
                   /\ Cardinality(corrected) <= 1
                   /\ \A g \in corrected :
                        /\ g.probability = RoundedQuotient(g.frequency_score, total) + residual
                        /\ \A h \in rows : h.frequency_score <= g.frequency_score

\* pass 8 has committed a postcode of three streets whose rounded shares sum to
\* 1.0001, so that the rank-1 row was corrected downwards
C1_Witness ==
    \E r \in DOMAIN db.build_run :
        /\ <<r, "8_finalisation">> \in db.build_pass_checkpoint
        /\ \E f \in RunRows(db.postcode_streets_final, r) :
            /\ Cardinality(FinalOf(r, f.postcode)) = 3
            /\ RoundedShareSum(r, f.postcode) = ONE + 1
            /\ f.probability = RoundedQuotient(f.frequency_score, ScoreSum(r, f.postcode)) - 1

PassIndex(pass_name) == CHOOSE i \in DOMAIN PASS_ORDER : PASS_ORDER[i] = pass_name

PassesBefore(pass_name) == {PASS_ORDER[j] : j \in 1..(PassIndex(pass_name) - 1)}

\* the run was recorded failed because pass current_pass raised
FailedInPass(d, build_run_id) ==
    /\ d.build_run[build_run_id].status = "failed"
    /\ d.build_run[build_run_id].error_text = "pass raised"

\* what a resumed run_build does once it has selected its run: the passes with
\* a checkpoint are skipped, the others are committed in PASS_ORDER, from pass N
\* on when pass N had raised, and the run is then marked built
ResumeCompletes ==
    /\ (pc = "idle") =>
          \A r \in DOMAIN db.build_run :
              FailedInPass(db, r) =>
                  load_completed_passes(db, r) = PassesBefore(db.build_run[r].current_pass)
    /\ (hist.last = "RunBuildOpen" /\ op.resume) =>
          /\ op.completed_passes = load_completed_passes(db, op.build_run_id)
          /\ FailedInPass(db, op.build_run_id) =>
                op.i = PassIndex(db.build_run[op.build_run_id].current_pass)
    /\ (hist.last = "PassExecute" /\ op.resume) => op.pass_name \notin op.completed_passes
    /\ (hist.last = "MarkBuilt" /\ op.resume) =>
          /\ op.committed = SelectSeq(PASS_ORDER, LAMBDA p : p \notin op.completed_passes)
          /\ load_completed_passes(db, op.build_run_id) = Range(PASS_ORDER)
          /\ db.build_run[op.build_run_id].status = "built"

\* C2 as stated: run_build with resume=True selects any run of the bundle that
\* failed at a pass N, skips the passes with a checkpoint, commits exactly the
\* passes N..8_finalisation in PASS_ORDER and marks the run built
C2_ResumeSelectsTheFailedRun ==
    /\ (hist.last = "RunBuildOpen" /\ op.resume) =>
          \A r \in DOMAIN db.build_run :
              (db.build_run[r].bundle_id = op.bundle_id /\ FailedInPass(db, r))
                  => op.build_run_id = r
    /\ ResumeCompletes

\* C2 amended: run_build with resume=True selects the most recently started run
\* of the bundle whose status is started or failed; it skips the passes with a
\* checkpoint, commits exactly the others in PASS_ORDER (N..8_finalisation when
\* pass N had raised) and marks the run built
C2_ResumeSelectsTheLatestRun ==
    /\ (hist.last = "RunBuildOpen" /\ op.resume) =>
          /\ op.build_run_id \in DOMAIN db.build_run
          /\ db.build_run[op.build_run_id].bundle_id = op.bundle_id
          /\ db.build_run[op.build_run_id].status \in {"started", "failed"}
          /\ \A r \in DOMAIN db.build_run :
                (/\ db.build_run[r].bundle_id = op.bundle_id
                 /\ db.build_run[r].status \in {"started", "failed"}) => r <= op.build_run_id
    /\ ResumeCompletes

\* two runs of the bundle have failed, the later one in 3_open_names_candidates;
\* the resume took the later one, committed passes 3 to 8 and marked it built
C2_Witness ==
    /\ hist.last = "MarkBuilt"
    /\ op.resume
    /\ op.build_run_id = 2
    /\ db.build_run[1].status = "failed"
    /\ op.completed_passes = PassesBefore("3_open_names_candidates")
    /\ Len(op.committed) = 6

\* surrogate ids replaced by their rank among the ids of the run
CandidateRank(d, build_run_id, candidate_id) ==
    Cardinality({c \in RunRows(d.postcode_street_candidates, build_run_id) :
                    c.candidate_id <= candidate_id})

FinalRank(d, build_run_id, final_id) ==
    Cardinality({f \in RunRows(d.postcode_streets_final, build_run_id) : f.final_id <= final_id})

\* everything a build run has produced, up to surrogate ids
RunOutputs(d, build_run_id) ==
    LET suffix == safe_version_suffix(d.build_run[build_run_id].dataset_version)
        cand(c) == CandidateRank(d, build_run_id, c)
        fin(f) == FinalRank(d, build_run_id, f)
    IN [\* the time the run finished is the one thing proper to each execution
        run |-> [d.build_run[build_run_id] EXCEPT !.finished_at_utc = 0],
        checkpoints |-> load_completed_passes(d, build_run_id),
        stage |-> [t \in StageTables |-> StageRows(d[t], build_run_id)],
        canonical |-> [t \in {"postcodes", "postcodes_meta", "streets_usrn", "unit_index"} |->
                          RunRows(d[t], build_run_id)],
        candidates |-> {[c EXCEPT !.candidate_id = cand(@)] :
                          c \in RunRows(d.postcode_street_candidates, build_run_id)},
        lineage |-> {[l EXCEPT !.parent_candidate_id = cand(@),
                               !.child_candidate_id = cand(@)] :
                          l \in RunRows(d.postcode_street_candidate_lineage, build_run_id)},
        final |-> {[f EXCEPT !.final_id = fin(@)] :
                          f \in RunRows(d.postcode_streets_final, build_run_id)},
        final_candidate |-> {[x EXCEPT !.final_id = fin(@), !.candidate_id = cand(@)] :
                          x \in RunRows(d.postcode_streets_final_candidate, build_run_id)},
        final_source |-> {[x EXCEPT !.final_id = fin(@)] :
                          x \in RunRows(d.postcode_streets_final_source, build_run_id)},
        projection |-> [kind \in {"postcode_lookup", "postcode_street_lookup"} |->
                          ApiTable(d, kind, suffix)],
        digests |-> CanonicalObjects(d, build_run_id)]

\* one run_build that opens run build_run_id on the bundles of d, with no
\* earlier output in the database, and executes all ten passes without failure
SingleShot(d, bundle_id, build_run_id, sq, raw_weights) ==
    LET fresh == [EmptyDb EXCEPT
                    !.build_bundle = d.build_bundle,
                    !.build_bundle_source = d.build_bundle_source,
                    !.build_run = SubSeq(d.build_run, 1, build_run_id - 1)]
        opened == create_build_run(fresh, bundle_id,
                      dataset_version_from_bundle_hash(d.build_bundle[bundle_id].bundle_hash))
        passed == RunPasses(opened, sq, bundle_id, build_run_id, 1, Len(PASS_ORDER),
                            raw_weights)
    IN mark_build_built(passed.d, bundle_id, build_run_id)

\* the components of RunOutputs that are rows of the run itself
OwnOutputs ==
    {"run", "checkpoints", "stage", "canonical", "candidates", "lineage", "final",
     "final_candidate", "final_source", "digests"}

\* C3: a build run that is marked built, after any failures and resumes, holds
\* the stage, canonical, candidate (up to surrogate ids) and final rows and the
\* verifier digests of a single run_build that executes all ten passes without
\* failure on the same bundle and inputs; so do the projection tables of its
\* version whenever the completing run_build executed a pass
C3_ResumeEqualsSingleShot ==
    (hist.last = "MarkBuilt") =>
        LET resumed == RunOutputs(db, op.build_run_id)
            single == RunOutputs(SingleShot(db, op.bundle_id, op.build_run_id,
                                            [candidate_id |-> 0, final_id |-> 0, txid |-> 0],
                                            env.weights),
                                 op.build_run_id)
        IN /\ \A component \in OwnOutputs : resumed[component] = single[component]
           /\ (op.committed # <<>>) => resumed.projection = single.projection

\* a run that failed in 5_gb_spatial_fallback after candidate ids had been
\* drawn was resumed and marked built
C3_Witness ==
    /\ hist.last = "MarkBuilt"
    /\ op.resume
    /\ hist.faults > 0
    /\ op.completed_passes = PassesBefore("5_gb_spatial_fallback")
    /\ seq.candidate_id > Cardinality(RunRows(db.postcode_street_candidates, op.build_run_id))

\* the committed database after the failure of the running pass was recorded:
\* nothing but the run row differs from the last commit
FailureRecorded(before, after) ==
    after = [before EXCEPT !.build_run[op.build_run_id] =
                [@ EXCEPT !.status = "failed", !.current_pass = op.pass_name,
                          !.error_text = op.error,
                          !.finished_at_utc = before.now]]

\* the except block has run: the pass's writes are gone from the connection
\* and the exception has reached the caller
RolledBackAndRaised ==
    /\ tx' = db'
    /\ outcome'.status = "raised"
    /\ outcome'.id = op.build_run_id
    /\ outcome'.error = op.error

C5_InterruptRecordsFailure ==
    (hist.last = "Interrupt") =>
        /\ tx = db
        /\ db.build_run[op.build_run_id].status = "failed"
        /\ latest_resumable_run(db, op.bundle_id) = op.build_run_id
        /\ NextPass(1, load_completed_passes(db, op.build_run_id)) = op.i

PromotionEdge(build_run_id, edge) ==
    LET candidates == RunRows(db.postcode_street_candidates, build_run_id)
    IN /\ edge.relation_type = "promotion_toid_usrn"
       /\ edge.produced_build_run_id = build_run_id
       /\ \E parent \in candidates, child \in candidates :
            /\ parent.candidate_id = edge.parent_candidate_id
            /\ child.candidate_id = edge.child_candidate_id
            /\ parent.candidate_type = "names_postcode_feature"
            /\ child.candidate_type = "oli_toid_usrn"
            /\ parent.postcode = child.postcode
            /\ parent.evidence_json.toid # NULL
            /\ parent.evidence_json.toid = child.evidence_json.toid

Occurrences(run_ids, run_id) == Cardinality({i \in DOMAIN run_ids : run_ids[i] = run_id})

\* the same profile, the same source names, and in every slot the same runs
\* listed equally often
SameSourceRuns(m, n) ==
    /\ m.build_profile = n.build_profile
    /\ Keys(m.source_runs) = Keys(n.source_runs)
    /\ \A k \in Keys(m.source_runs) :
         \A run_id \in Range(Lookup(m.source_runs, k)) \cup Range(Lookup(n.source_runs, k)) :
            Occurrences(Lookup(m.source_runs, k), run_id) =
                Occurrences(Lookup(n.source_runs, k), run_id)

\* C8: the bundle hash create_build_bundle returns for a manifest equals the
\* _bundle_hash of another manifest exactly when the two have the same profile
\* and the same source names mapped to the same multisets of run ids, whatever
\* the order of the names and of the run ids
C8_BundleHashStable ==
    (outcome.cmd = "bundle_create" /\ outcome.status \in {"created", "existing"}) =>
        \A n \in env.manifests :
            (outcome.bundle_hash = bundle_hash(n.build_profile, n.source_runs))
                <=> SameSourceRuns(outcome.manifest, n)

\* a manifest that lists the source names and the ppd runs in another order
\* than the manifest the bundle was created from got the hash of that bundle
C8_Witness ==
    /\ outcome.cmd = "bundle_create"
    /\ outcome.status = "existing"
    /\ outcome.manifest # hist.created[outcome.id]
    /\ "ppd" \in Keys(outcome.manifest.source_runs)
    /\ Lookup(outcome.manifest.source_runs, "ppd") = <<11, 10>>
    /\ Lookup(hist.created[outcome.id].source_runs, "ppd") = <<10, 11>>
    /\ outcome.manifest.source_runs[1][1] # hist.created[outcome.id].source_runs[1][1]
    /\ outcome.bundle_hash = db.build_bundle[outcome.id].bundle_hash


\* C9: once a bundle has been created from a manifest, every later call of
\* create_build_bundle with the same profile and the same source-run set, in
\* any order of the names and of the run ids, answers "existing" with the id
\* of that bundle and inserts no build_bundle and no build_bundle_source row;
\* so no two bundles have the same build_profile and bundle_hash
C9_CreateIsIdempotent ==
    [][ /\ (hist'.last = "CreateBuildBundle" /\ outcome'.cmd = "bundle_create") =>
            \A b \in DOMAIN hist.created :
                SameSourceRuns(hist.created[b], outcome'.manifest) =>
                    /\ outcome'.status = "existing"
                    /\ outcome'.id = b
                    /\ db'.build_bundle = db.build_bundle
                    /\ db'.build_bundle_source = db.build_bundle_source
        /\ \A b, c \in DOMAIN db'.build_bundle :
                (/\ db'.build_bundle[b].build_profile = db'.build_bundle[c].build_profile
                 /\ db'.build_bundle[b].bundle_hash = db'.build_bundle[c].bundle_hash)
                    => b = c ]_vars

\* the gb_core manifest with its names in reverse order was answered with the
\* bundle created from the manifest in the listed order, and a second bundle
\* of another source-run set has been stored since
C9_Witness ==
    /\ outcome.cmd = "bundle_create"
    /\ outcome.status = "existing"
    /\ outcome.id = 1
    /\ outcome.manifest = Manifest("gb_core", Reversed(GbCoreRuns))
    /\ hist.created[1] = Manifest("gb_core", GbCoreRuns)
    /\ Len(db.build_bundle) = 2
    /\ Cardinality({r \in db.build_bundle_source : r.bundle_id = 1}) = 7


\* the manifest lists, under some slot, a run id that meta.ingest_run does not
\* hold or holds for another source
ListsForeignRun(manifest) ==
    \E i \in DOMAIN manifest.source_runs :
        \E j \in DOMAIN manifest.source_runs[i][2] :
            LET run_id == manifest.source_runs[i][2][j]
            IN \/ run_id \notin DOMAIN IngestRun
               \/ IngestRun[run_id].source_name # manifest.source_runs[i][1]

\* C10: every ingest run stored in build_bundle_source exists in
\* meta.ingest_run with the source_name of the slot it is stored under, and a
\* manifest that lists under any slot a run id that is unknown or belongs to
\* another source is answered with a BuildError and stores no bundle
C10_BundleSourcesMatchTheirSlot ==
    /\ \A r \in db.build_bundle_source :
            /\ r.ingest_run_id \in DOMAIN IngestRun
            /\ IngestRun[r.ingest_run_id].source_name = r.source_name
    /\ (outcome.cmd = "bundle_create" /\ ListsForeignRun(outcome.manifest)) =>
            /\ outcome.status = "error"
            /\ \A b \in DOMAIN hist.created : hist.created[b] # outcome.manifest


\* the manifest lists, under some slot, a number of runs the slot does not
\* admit: none for ppd, other than one for any other source
ListsBadCardinality(manifest) ==
    \E i \in DOMAIN manifest.source_runs :
        IF manifest.source_runs[i][1] = "ppd"
        THEN Len(manifest.source_runs[i][2]) = 0
        ELSE Len(manifest.source_runs[i][2]) # 1

\* C11: every stored bundle carries exactly one ingest run for each slot
\* other than ppd and at least one for ppd, and a manifest in which any slot
\* other than ppd lists a number of runs different from one, or ppd lists no
\* run, is answered with a BuildError and stores no bundle
C11_EverySlotCardinalityValidated ==
    /\ \A b \in DOMAIN db.build_bundle :
            \A s \in SOURCE_NAMES \ {"ppd"} :
                Cardinality({r \in db.build_bundle_source :
                                r.bundle_id = b /\ r.source_name = s}) <= 1
    /\ (outcome.cmd = "bundle_create" /\ ListsBadCardinality(outcome.manifest)) =>
            /\ outcome.status = "error"
            /\ \A b \in DOMAIN hist.created : hist.created[b] # outcome.manifest


\* the dataset versions whose versioned tables the alias views select from
AliasesOf(d) == {v.suffix : v \in d.api_views}

\* C13: in every committed state the aliases api.postcode_lookup and
\* api.postcode_street_lookup either both do not exist or both exist and
\* select from the versioned projection tables of one and the same dataset
\* version
C13_AliasesSwapTogether ==
    \/ db.api_views = {}
    \/ \E suffix \in AliasesOf(db) :
            db.api_views = {[kind |-> "postcode_lookup", suffix |-> suffix],
                            [kind |-> "postcode_street_lookup", suffix |-> suffix]}

\* the aliases selected from one published dataset version and a publication
\* of a run of another bundle has pointed both at the other version
C13_Witness ==
    /\ hist.last = "PublishBuild"
    /\ outcome.status = "published"
    /\ Cardinality(db.dataset_publication) = 2
    /\ Cardinality(db.api_views) = 2
    /\ AliasesOf(db) = {safe_version_suffix(db.build_run[outcome.id].dataset_version)}


\* C12: the alias views are created, replaced or removed by publish_build
\* alone: no step of run_build, whether the run is new, resumed or a rebuild
\* and whatever the status of its bundle, and no verify_build changes which
\* aliases exist or what they select from
C12_AliasesChangedOnlyByPublish ==
    [][(db'.api_views # db.api_views \/ tx'.api_views # tx.api_views)
            => hist'.last = "PublishBuild"]_vars


\* the database with what a publication refreshes left out: the time, actor
\* and transaction id of every dataset_publication row, and the clock
PublicationRefreshMasked(d) ==
    [d EXCEPT !.dataset_publication =
                 {[x EXCEPT !.published_at_utc = 0, !.published_by = NULL,
                            !.publish_txid = 0] : x \in @},
              !.now = 0]

\* C14: publish_build of a run that is already published changes nothing but
\* published_at_utc, published_by and publish_txid: the aliases select from
\* the same versioned tables as before, dataset_publication has exactly one
\* row for the dataset version, the run and its bundle are published before
\* and after, and the run's finished_at_utc is what it was
C14_RepublishIsNoOp ==
    [][(/\ hist'.last = "PublishBuild"
        /\ outcome'.status = "published"
        /\ db.build_run[outcome'.id].status = "published") =>
            LET run == db.build_run[outcome'.id]
            IN /\ db'.api_views = db.api_views
               /\ Cardinality({x \in db'.dataset_publication :
                                  x.dataset_version = run.dataset_version}) = 1
               /\ db'.build_run[outcome'.id].status = "published"
               /\ db.build_bundle[run.bundle_id].status = "published"
               /\ db'.build_bundle[run.bundle_id].status = "published"
               /\ db'.build_run[outcome'.id].finished_at_utc = run.finished_at_utc
               /\ PublicationRefreshMasked(db') = PublicationRefreshMasked(db)]_vars


\* the run is unknown, or started or failed, or one of its two versioned
\* projection tables does not exist
NotPublishable(d, build_run_id) ==
    IF build_run_id \notin DOMAIN d.build_run THEN TRUE
    ELSE \/ d.build_run[build_run_id].status \in {"started", "failed"}
         \/ LET suffix == safe_version_suffix(d.build_run[build_run_id].dataset_version)
            IN \/ ApiTable(d, "postcode_street_lookup", suffix) = {}
               \/ ApiTable(d, "postcode_lookup", suffix) = {}

\* C15: publish_build of an unknown run, of a run that is started or failed,
\* or of a run whose two versioned projection tables do not both exist raises
\* BuildError, and the alias views, dataset_publication and the status of
\* every run and bundle are left as they were
C15_PublishRejected ==
    [][(hist'.last = "PublishBuild" /\ NotPublishable(db, outcome'.id)) =>
            /\ outcome'.cmd = "publish"
            /\ outcome'.status = "error"
            /\ outcome'.error # NULL
            /\ db'.api_views = db.api_views
            /\ db'.dataset_publication = db.dataset_publication
            /\ db'.build_run = db.build_run
            /\ db'.build_bundle = db.build_bundle
            /\ tx' = db']_vars

\* publish_build was refused for a run that failed when it was to be marked
\* built: its versioned tables exist, and it is still failed
C15_Witness ==
    /\ hist.last = "PublishBuild"
    /\ outcome.status = "error"
    /\ outcome.error = "Build run must be built before publish"
    /\ db.build_run[outcome.id].status = "failed"
    /\ db.build_run[outcome.id].error_text = "marking built raised"
    /\ db.api_tables # {}
    /\ db.api_views = {}
    /\ db.dataset_publication = {}


\* verify_build has succeeded for the run: it stored the run's canonical hashes
Verified(d, build_run_id) ==
    \E x \in d.canonical_hash : x.build_run_id = build_run_id

\* C16: publish_build succeeds for a build run only if verify_build has
\* succeeded for that run before
C16_PublishOnlyVerified ==
    (hist.last = "PublishBuild" /\ outcome.status = "published") =>
        Verified(db, outcome.id)


\* C17: of the build runs of a bundle at most one has status built or
\* published
C17_AtMostOneBuiltRun ==
    \A b \in DOMAIN db.build_bundle :
        Cardinality({r \in DOMAIN db.build_run :
                        /\ db.build_run[r].bundle_id = b
                        /\ db.build_run[r].status \in {"built", "published"}}) <= 1


\* C19: when every pass of PASS_ORDER has committed and the invocation
\* returns, the run is committed with status built, current_pass complete,
\* finished_at_utc set and error_text NULL and its bundle with status built;
\* and every run that is built or published has a checkpoint for every pass
\* of PASS_ORDER
C19_BuiltWhenAllPassesCommitted ==
    [][/\ (pc = "running" /\ op.i > Len(PASS_ORDER) /\ pc' = "idle") =>
            /\ outcome' = Result("build_run", "built", op.build_run_id, NULL)
            /\ db'.build_run[op.build_run_id].status = "built"
            /\ db'.build_run[op.build_run_id].current_pass = "complete"
            /\ db'.build_run[op.build_run_id].finished_at_utc # 0
            /\ db'.build_run[op.build_run_id].error_text = NULL
            /\ db'.build_bundle[op.bundle_id].status = "built"
       /\ \A r \in DOMAIN db'.build_run :
            db'.build_run[r].status \in {"built", "published"} =>
                \A i \in DOMAIN PASS_ORDER :
                    <<r, PASS_ORDER[i]>> \in db'.build_pass_checkpoint]_vars

\* a run that had failed twice, with its error text recorded, was resumed and
\* is built with every checkpoint and no error text
C19_Witness ==
    /\ hist.last = "MarkBuilt"
    /\ op.resume
    /\ hist.faults = 2
    /\ db.build_run[op.build_run_id].status = "built"
    /\ db.build_run[op.build_run_id].error_text = NULL
    /\ db.build_run[op.build_run_id].finished_at_utc # 0
    /\ load_completed_passes(db, op.build_run_id) = Range(PASS_ORDER)


\* rebuild and resume are both set, or the bundle is unknown, or resume is
\* set and no run of the bundle is started or failed
MustBeRejected(d, bundle_id, rebuild, resume) ==
    \/ rebuild /\ resume
    \/ bundle_id \notin DOMAIN d.build_bundle
    \/ /\ resume
       /\ ~ \E r \in DOMAIN d.build_run :
                /\ d.build_run[r].bundle_id = bundle_id
                /\ d.build_run[r].status \in {"started", "failed"}

\* C20: a run_build invocation with rebuild and resume both set, with an
\* unknown bundle id, or with resume set on a bundle that has no started or
\* failed run is answered with a BuildError and never opens a run; and an
\* invocation answered so creates no build run, writes no checkpoint and
\* changes no run or bundle row
C20_RunBuildRejects ==
    [][/\ \A bundle_id \in 1..env.max_bundles, rebuild \in BOOLEAN, resume \in BOOLEAN :
            (Idle /\ MustBeRejected(db, bundle_id, rebuild, resume)) =>
                /\ ~RunBuildOpen(bundle_id, rebuild, resume)
                /\ ENABLED RunBuildRefused(bundle_id, rebuild, resume)
       /\ (hist'.last = "RunBuildRefused") =>
            /\ outcome'.cmd = "build_run"
            /\ outcome'.status = "error"
            /\ outcome'.error # NULL
            /\ db'.build_run = db.build_run
            /\ db'.build_pass_checkpoint = db.build_pass_checkpoint
            /\ db'.build_bundle = db.build_bundle
            /\ db' = db
            /\ tx' = db']_vars

\* --resume was refused on a bundle whose only run is built
C20_Witness ==
    /\ hist.last = "RunBuildRefused"
    /\ outcome.status = "error"
    /\ outcome.error = "No resumable run found for bundle"
    /\ Len(db.build_run) = 1
    /\ db.build_run[1].status = "built"


\* the process is in the pass loop of run_build
InPassLoop(position) == position \in {"running", "executed", "raising"}

\* C18: two run_build invocations on one bundle are serialised: the two
\* processes are never both in the pass loop for the same build_run_id, and
\* no process executes a pass for a bundle while the other process has
\* committed some of its passes for that bundle and has passes left to do
C18_InvocationsSerialised ==
    /\ ~ /\ InPassLoop(pc)
         /\ InPassLoop(peer.pc)
         /\ op.build_run_id = peer.op.build_run_id
    /\ ~ /\ pc = "executed"
         /\ peer.pc = "running"
         /\ peer.op.bundle_id = op.bundle_id
         /\ peer.op.committed # <<>>
         /\ peer.op.i <= Len(PASS_ORDER)



\* the rows of d that carry a build run other than build_run_id as their
\* producer: of the nine output tables, of meta.canonical_hash, of
\* meta.build_pass_checkpoint and of the versioned api tables
RowsOfOtherRuns(d, build_run_id) ==
    [outputs |-> [t \in OutputTables |->
                    {x \in d[t] : x.produced_build_run_id # build_run_id}],
     canonical_hash |-> {x \in d.canonical_hash : x.build_run_id # build_run_id},
     build_pass_checkpoint |-> {x \in d.build_pass_checkpoint : x[1] # build_run_id},
     api |-> UNION {{<<t.kind, t.suffix, x>> :
                        x \in {y \in t.rows : y.produced_build_run_id # build_run_id}} :
                    t \in d.api_tables}]

\* C21: run_build with rebuild=True opens a new build run with no output,
\* canonical_hash or checkpoint row left and no pass to skip; an invocation
\* that opened a new run, as every rebuild does, is marked built after all
\* ten passes have been executed in PASS_ORDER, and no step of it changes a
\* row that another build run has produced
C21_RebuildTouchesOnlyItsRun ==
    [][/\ \A bundle_id \in 1..env.max_bundles :
            RunBuildOpen(bundle_id, TRUE, FALSE) =>
                /\ op'.build_run_id \notin DOMAIN db.build_run
                /\ op'.completed_passes = {}
                /\ op'.i = 1
                /\ \A t \in OutputTables : RunRows(db'[t], op'.build_run_id) = {}
                /\ load_completed_passes(db', op'.build_run_id) = {}
                /\ RowsOfOtherRuns(db', op'.build_run_id) = RowsOfOtherRuns(db, op'.build_run_id)
       /\ (hist'.last = "MarkBuilt" /\ ~op.resume) => op.committed = PASS_ORDER
       /\ (pc # "idle" /\ ~op.resume) =>
            /\ RowsOfOtherRuns(db', op.build_run_id) = RowsOfOtherRuns(db, op.build_run_id)
            /\ RowsOfOtherRuns(tx', op.build_run_id) = RowsOfOtherRuns(tx, op.build_run_id)]_vars

\* the weights object has exactly the eight candidate types as its keys and
\* every weight in it is strictly positive
ValidWeights(raw_weights) ==
    /\ DOMAIN raw_weights = Range(CANDIDATE_TYPES)
    /\ \A k \in DOMAIN raw_weights : raw_weights[k] > 0

WeightConfigErrors ==
    {"frequency_weights missing candidate types", "frequency weight must be > 0",
     "frequency_weights has unknown candidate types"}

\* C22: pass 8 gets past _weight_config exactly when the weights object has
\* the eight candidate types as its key set and every weight strictly
\* positive, and is refused with a BuildError otherwise; and when it gets
\* past, every weight of the weight table pass 8 works with is strictly
\* positive and no postcode has total_weight <= 0
C22_WeightTableValid ==
    (hist.last = "PassExecute" /\ op.pass_name = "8_finalisation") =>
        /\ ValidWeights(env.weights) <=> op.error \notin WeightConfigErrors
        /\ ~ValidWeights(env.weights) => pc = "raising"
        /\ (op.error \notin WeightConfigErrors) =>
                /\ \A t \in Range(CANDIDATE_TYPES) : Numeric4(env.weights[t]) > 0
                /\ op.error # "Finalisation failed: total_weight <= 0"

\* C23: a verify_build that meets an unknown run, a run that is neither built
\* nor published, a postcode whose probabilities do not sum to 1.0000 or a
\* missing projection table ends in a BuildError and leaves the
\* canonical_hash rows and every run and bundle status as they were
C23_VerifyRejectsWithoutWriting ==
    [][\A build_run_id \in 1..env.max_runs :
         (VerifyBuild(build_run_id) /\ VerifyCheck(db, build_run_id) # "ok") =>
            /\ outcome' = Result("verify", "error", build_run_id, VerifyCheck(db, build_run_id))
            /\ db'.canonical_hash = db.canonical_hash
            /\ db'.build_run = db.build_run
            /\ db'.build_bundle = db.build_bundle
            /\ (\/ build_run_id \notin DOMAIN db.build_run
                \/ db.build_run[build_run_id].status \notin {"built", "published"}
                \/ \E f \in RunRows(db.postcode_streets_final, build_run_id) :
                      ProbabilitySum(db, build_run_id, f.postcode) # ONE
                \/ \E kind \in {"postcode_street_lookup", "postcode_lookup"} :
                      ApiTable(db, kind, safe_version_suffix(
                                   db.build_run[build_run_id].dataset_version)) = {})]_vars

\* a verify of a built run was refused for a probability sum while the rows
\* of an earlier verify are in canonical_hash
C23_Witness ==
    /\ hist.last = "VerifyBuild"
    /\ outcome = Result("verify", "error", 1, "Probability sum check failed")
    /\ db.build_run[1].status = "built"
    /\ {x \in db.canonical_hash : x.build_run_id = 1} # {}

CanonicalObjectNames ==
    {"derived_postcode_streets_final", "api_postcode_street_lookup", "api_postcode_lookup"}

\* C24: a verify_build that succeeds leaves in canonical_hash exactly one row
\* per output object for the run, holding the digest and row count of the
\* object as it is now, in place of the run's earlier rows, and leaves the
\* rows of other runs alone; a verify repeated straight after a successful
\* verify of the same run leaves the same three digests and row counts
C24_VerifyWritesThreeRows ==
    [][\A build_run_id \in 1..env.max_runs :
         (VerifyBuild(build_run_id) /\ VerifyCheck(db, build_run_id) = "ok") =>
            LET rows == {x \in db'.canonical_hash : x.build_run_id = build_run_id}
                objects == CanonicalObjects(db, build_run_id)
            IN /\ outcome' = Result("verify", "verified", build_run_id, NULL)
               /\ Cardinality(rows) = 3
               /\ \A o \in CanonicalObjectNames :
                    \E x \in rows : /\ x.object_name = o
                                    /\ x.sha256 = objects[o]
                                    /\ x.row_count = Len(objects[o])
               /\ {x \in db'.canonical_hash : x.build_run_id # build_run_id}
                    = {x \in db.canonical_hash : x.build_run_id # build_run_id}
               /\ (hist.last = "VerifyBuild"
                     /\ outcome = Result("verify", "verified", build_run_id, NULL))
                    => db'.canonical_hash = db.canonical_hash]_vars

\* a verify of run 1 succeeded and its three rows are in canonical_hash, none
\* of them the row of an empty object
C24_Witness ==
    /\ hist.last = "VerifyBuild"
    /\ outcome = Result("verify", "verified", 1, NULL)
    /\ Cardinality({x \in db.canonical_hash : x.build_run_id = 1}) = 3
    /\ \A x \in db.canonical_hash : x.row_count > 0

\* the slot is one UUID string or a non-empty list of UUID strings
SlotWellFormed(run_ids_raw) ==
    \/ run_ids_raw.type = "str" /\ run_ids_raw.str > 0
    \/ /\ run_ids_raw.type = "list"
       /\ run_ids_raw.list # <<>>
       /\ \A k \in DOMAIN run_ids_raw.list : run_ids_raw.list[k] > 0

CandidatesOf(d, build_run_id, postcode, candidate_type) ==
    {c \in RunRows(d.postcode_street_candidates, build_run_id) :
        c.postcode = postcode /\ c.candidate_type = candidate_type}

\* the staged rows whose postcode_norm is that of the postcode
Matching(rows, postcode) == {r \in rows : r.postcode_norm = StripSpaces(postcode)}

\* C26: when pass 6 has run, a postcode has at most one spatial_dfi_highway
\* candidate; one that has it is a GB-NIR postcode with no other candidate in
\* the run (so none before the pass and none from the direct OSNI
\* sub-pass), and the candidate is low confidence and carries the matching
\* dfi_road_segment of the lowest segment_id; an NI postcode with one
\* matching OSNI entry and one matching DfI segment has exactly one
\* osni_gazetteer_direct candidate, of medium confidence, and no DfI one
C26_DfiFallbackOnlyWithoutCandidates ==
    (hist.last = "PassExecute" /\ op.pass_name = "6_ni_candidates") =>
        \A p \in RunRows(tx.postcodes, op.build_run_id) :
            LET fallback == CandidatesOf(tx, op.build_run_id, p.postcode, "spatial_dfi_highway")
                direct == CandidatesOf(tx, op.build_run_id, p.postcode, "osni_gazetteer_direct")
                segments == Matching(StageRows(tx.stage_dfi_road_segment, op.build_run_id),
                                     p.postcode)
                entries == Matching(StageRows(tx.stage_osni_street_point, op.build_run_id),
                                    p.postcode)
            IN /\ Cardinality(fallback) <= 1
               /\ \A c \in fallback :
                    /\ p.subdivision_code = "GB-NIR"
                    /\ {x \in RunRows(tx.postcode_street_candidates, op.build_run_id) :
                            x.postcode = p.postcode} = {c}
                    /\ c.confidence = "low"
                    /\ \E r \in segments :
                          /\ \A other \in segments :
                                other = r \/ StrLess(r.segment_id, other.segment_id)
                          /\ c.evidence_json.segment_id = r.segment_id
                          /\ c.street_name_canonical = r.street_name_casefolded
               /\ (/\ p.subdivision_code = "GB-NIR"
                   /\ Cardinality(entries) = 1
                   /\ Cardinality(segments) = 1)
                    => /\ Cardinality(direct) = 1
                       /\ \A c \in direct : c.confidence = "medium"
                       /\ fallback = {}

\* pass 6 has run: BT1 1AA, with one OSNI entry and one DfI segment, has its
\* direct candidate only, and BT2 2BB, with two DfI segments and no
\* candidate, has the fallback candidate of segment d2
C26_Witness ==
    /\ hist.last = "PassExecute"
    /\ op.pass_name = "6_ni_candidates"
    /\ Cardinality(Matching(StageRows(tx.stage_dfi_road_segment, 1), postcode_display(PcBT1))) = 1
    /\ Cardinality(CandidatesOf(tx, 1, postcode_display(PcBT1), "osni_gazetteer_direct")) = 1
    /\ CandidatesOf(tx, 1, postcode_display(PcBT1), "spatial_dfi_highway") = {}
    /\ \E c \in CandidatesOf(tx, 1, postcode_display(PcBT2), "spatial_dfi_highway") :
          c.evidence_json.segment_id = "d2"
    /\ Cardinality(Matching(StageRows(tx.stage_dfi_road_segment, 1), postcode_display(PcBT2))) = 2

\* C27: when pass 5 has run, a postcode has at most one spatial_os_open_roads
\* candidate; one that has it is a GB postcode that had no high-confidence
\* candidate in the run when the pass started, and the candidate is low
\* confidence and carries the matching open_roads_segment of the lowest
\* segment_id; a postcode with a high-confidence candidate has none
C27_OpenRoadsFallbackWithoutHigh ==
    (hist.last = "PassExecute" /\ op.pass_name = "5_gb_spatial_fallback") =>
        \A p \in RunRows(tx.postcodes, op.build_run_id) :
            LET fallback == CandidatesOf(tx, op.build_run_id, p.postcode, "spatial_os_open_roads")
                high == {c \in RunRows(db.postcode_street_candidates, op.build_run_id) :
                            c.postcode = p.postcode /\ c.confidence = "high"}
                segments == Matching(StageRows(tx.stage_open_roads_segment, op.build_run_id),
                                     p.postcode)
            IN /\ Cardinality(fallback) <= 1
               /\ high # {} => fallback = {}
               /\ \A c \in fallback :
                    /\ p.country_iso2 = "GB"
                    /\ high = {}
                    /\ c.confidence = "low"
                    /\ \E r \in segments :
                          /\ \A other \in segments :
                                other = r \/ StrLess(r.segment_id, other.segment_id)
                          /\ c.evidence_json.segment_id = r.segment_id
                          /\ c.street_name_canonical = r.road_name_casefolded
                          /\ c.usrn = r.usrn

\* pass 5 has run: M1 1AE, with a high-confidence candidate and a matching
\* segment, has no fallback candidate, and M2 2BB, with a medium candidate
\* and two matching segments, has the one of segment s2
C27_Witness ==
    /\ hist.last = "PassExecute"
    /\ op.pass_name = "5_gb_spatial_fallback"
    /\ Matching(StageRows(tx.stage_open_roads_segment, 1), postcode_display(PcM1)) # {}
    /\ \E c \in RunRows(db.postcode_street_candidates, 1) :
          c.postcode = postcode_display(PcM1) /\ c.confidence = "high"
    /\ CandidatesOf(tx, 1, postcode_display(PcM1), "spatial_os_open_roads") = {}
    /\ \E c \in RunRows(db.postcode_street_candidates, 1) :
          c.postcode = postcode_display(PcM2) /\ c.confidence = "medium"
    /\ \E c \in CandidatesOf(tx, 1, postcode_display(PcM2), "spatial_os_open_roads") :
          c.evidence_json.segment_id = "s2"

\* the Open Names features of the run that oli_toid_usrn links to the usrn
FeaturesOfUsrn(d, build_run_id, usrn) ==
    {n \in StageRows(d.stage_open_names_road_feature, build_run_id) :
        /\ n.toid # NULL
        /\ \E o \in StageRows(d.stage_oli_toid_usrn, build_run_id) :
              o.toid = n.toid /\ o.usrn = usrn}

\* C28: when pass 2 has run, core.streets_usrn holds one row for each usrn of
\* the staged USRN table and for each usrn that oli_toid_usrn links to an
\* Open Names feature, and no other row; the row of a usrn of the staged
\* table has that table's name; the row of any other usrn has the name most
\* of its linked features carry, among equally frequent names the one with
\* the least casefolded name and then the least raw name
C28_OneStreetPerUsrn ==
    (hist.last = "PassExecute" /\ op.pass_name = "2_gb_canonical_streets") =>
        LET streets == RunRows(tx.streets_usrn, op.build_run_id)
            direct == StageRows(tx.stage_streets_usrn_input, op.build_run_id)
            oli == StageRows(tx.stage_oli_toid_usrn, op.build_run_id)
            usrns == {x.usrn : x \in direct}
                     \cup {o.usrn : o \in {y \in oli :
                                FeaturesOfUsrn(tx, op.build_run_id, y.usrn) # {}}}
            count(usrn, name) ==
                Cardinality({n \in FeaturesOfUsrn(tx, op.build_run_id, usrn) :
                                n.street_name_raw = name})
        IN /\ {s.usrn : s \in streets} = usrns
           /\ \A u \in usrns : Cardinality({s \in streets : s.usrn = u}) = 1
           /\ \A s \in streets :
                IF \E x \in direct : x.usrn = s.usrn
                THEN \E x \in direct : /\ x.usrn = s.usrn
                                        /\ s.street_name = x.street_name
                                        /\ s.street_name_casefolded = x.street_name_casefolded
                ELSE /\ count(s.usrn, s.street_name) > 0
                     /\ \A n \in FeaturesOfUsrn(tx, op.build_run_id, s.usrn) :
                          \/ n.street_name_raw = s.street_name
                          \/ count(s.usrn, n.street_name_raw) < count(s.usrn, s.street_name)
                          \/ /\ count(s.usrn, n.street_name_raw) = count(s.usrn, s.street_name)
                             /\ \/ StrLess(s.street_name_casefolded, n.street_name_casefolded)
                                \/ /\ s.street_name_casefolded = n.street_name_casefolded
                                   /\ StrLess(s.street_name, n.street_name_raw)

\* pass 2 has run: usrn 100 has the name of the staged USRN table although
\* features are linked to it, and usrn 300 has Park View, the name of two of
\* its three linked features, although High Street sorts before it
C28_Witness ==
    /\ hist.last = "PassExecute"
    /\ op.pass_name = "2_gb_canonical_streets"
    /\ FeaturesOfUsrn(tx, 1, 100) # {}
    /\ \E s \in RunRows(tx.streets_usrn, 1) : s.usrn = 100 /\ s.street_name = "Main Road"
    /\ \E s \in RunRows(tx.streets_usrn, 1) : s.usrn = 300 /\ s.street_name = "Park View"
    /\ \E n \in FeaturesOfUsrn(tx, 1, 300) : n.street_name_raw = "High Street"

\* the raw ppd rows of the bundle's runs that pass 0b keeps (a row hash, a
\* street and a parseable postcode), as <<ingest_run_id, source_row_num>>
PpdOccurrences(d, bundle_id) ==
    UNION {{<<r, k>> : k \in {j \in DOMAIN RawPpd(r) :
                                /\ RawPpd(r)[j].row_hash # NULL
                                /\ RawPpd(r)[j].street # NULL
                                /\ postcode_norm(RawPpd(r)[j].postcode) # NoText}} :
           r \in {x.ingest_run_id : x \in {y \in d.build_bundle_source :
                        y.bundle_id = bundle_id /\ y.source_name = "ppd"}}}

\* a is staged before b: its run was retrieved earlier, or at the same time
\* and has the lower run id, or it is an earlier row of the same run
StagedBefore(a, b) ==
    \/ IngestRun[a[1]].retrieved_at_utc < IngestRun[b[1]].retrieved_at_utc
    \/ /\ IngestRun[a[1]].retrieved_at_utc = IngestRun[b[1]].retrieved_at_utc
       /\ \/ a[1] < b[1]
          \/ (a[1] = b[1] /\ a[2] < b[2])

\* C29: when pass 0b has run, stage.ppd_parsed_address holds for the run
\* exactly one row per row_hash of the rows it keeps from the bundle's ppd
\* runs, and that row has the values and the ingest_run_id of the
\* occurrence that is last when the runs are taken by retrieved_at_utc and
\* then run_id ascending and the rows of a run by source_row_num
C29_LastPpdOccurrenceStaged ==
    (hist.last = "PassExecute" /\ op.pass_name = "0b_stage_normalisation") =>
        LET staged == StageRows(tx.stage_ppd_parsed_address, op.build_run_id)
            occurrences == PpdOccurrences(tx, op.bundle_id)
            hash(o) == RawPpd(o[1])[o[2]].row_hash
        IN /\ {x.row_hash : x \in staged} = {hash(o) : o \in occurrences}
           /\ \A o \in occurrences :
                (\A other \in occurrences :
                    (hash(other) = hash(o) /\ other # o) => StagedBefore(other, o))
                => LET row == RawPpd(o[1])[o[2]]
                   IN {x \in staged : x.row_hash = hash(o)} =
                        {[build_run_id |-> op.build_run_id, row_hash |-> row.row_hash,
                          postcode_norm |-> postcode_norm(row.postcode),
                          house_number |-> row.house_number,
                          street_token_raw |-> row.street,
                          street_token_casefolded |-> street_casefold(row.street),
                          ingest_run_id |-> o[1]]}

\* pass 0b has run over the ppd runs 10 and 11: h1, a row of both, is staged
\* as run 10 has it, run 11 having been retrieved first
C29_Witness ==
    /\ hist.last = "PassExecute"
    /\ op.pass_name = "0b_stage_normalisation"
    /\ {o[1] : o \in PpdOccurrences(tx, op.bundle_id)} = {10, 11}
    /\ \E x \in StageRows(tx.stage_ppd_parsed_address, op.build_run_id) :
          x.row_hash = "h1" /\ x.ingest_run_id = 10 /\ x.house_number = "5"

\* the canonical street name of a candidate: the street_name of the run's
\* streets_usrn row of its usrn, its own street_name_canonical without one
CanonicalStreetName(d, build_run_id, c) ==
    LET streets == {x \in RunRows(d.streets_usrn, build_run_id) : x.usrn = c.usrn}
    IN IF streets = {} THEN c.street_name_canonical
       ELSE (CHOOSE x \in streets : TRUE).street_name

\* C30: when pass 8 has run, the run has one final row for each (postcode,
\* canonical street name) of its candidates and no other final row; every
\* candidate has exactly one postcode_streets_final_candidate row, to the
\* final row of its postcode and canonical street name; and the link_rank
\* values of a final row are 1..k, in ascending candidate_id
C30_FinalRowsAndLinks ==
    (hist.last = "PassExecute" /\ op.pass_name = "8_finalisation" /\ pc = "executed") =>
        LET candidates == RunRows(tx.postcode_street_candidates, op.build_run_id)
            final == RunRows(tx.postcode_streets_final, op.build_run_id)
            links == RunRows(tx.postcode_streets_final_candidate, op.build_run_id)
            group(c) == <<c.postcode, CanonicalStreetName(tx, op.build_run_id, c)>>
            groups == {group(c) : c \in candidates}
            links_of(f) == {l \in links : l.final_id = f.final_id}
        IN /\ {<<f.postcode, f.street_name>> : f \in final} = groups
           /\ Cardinality(final) = Cardinality(groups)
           /\ Cardinality({f.final_id : f \in final}) = Cardinality(final)
           /\ {l.candidate_id : l \in links} = {c.candidate_id : c \in candidates}
           /\ \A c \in candidates :
                /\ Cardinality({l \in links : l.candidate_id = c.candidate_id}) = 1
                /\ \A l \in links : l.candidate_id = c.candidate_id =>
                      \E f \in final : /\ f.final_id = l.final_id
                                        /\ <<f.postcode, f.street_name>> = group(c)
           /\ \A f \in final :
                /\ {l.link_rank : l \in links_of(f)} = 1..Cardinality(links_of(f))
                /\ \A l \in links_of(f), m \in links_of(f) :
                      l.candidate_id < m.candidate_id => l.link_rank < m.link_rank

\* pass 8 has run over three candidates: one postcode has two final rows, one
\* of them with two linked candidates, the other named by core.streets_usrn
C30_Witness ==
    /\ hist.last = "PassExecute"
    /\ op.pass_name = "8_finalisation"
    /\ pc = "executed"
    /\ Cardinality(RunRows(tx.postcode_street_candidates, 1)) = 3
    /\ Cardinality(RunRows(tx.postcode_streets_final, 1)) = 2
    /\ \E f \in RunRows(tx.postcode_streets_final, 1) :
          Cardinality({l \in RunRows(tx.postcode_streets_final_candidate, 1) :
                          l.final_id = f.final_id}) = 2
    /\ \E c \in RunRows(tx.postcode_street_candidates, 1) :
          CanonicalStreetName(tx, 1, c) # c.street_name_canonical

\* the alphanumeric characters of a text, upper-cased
Alphanumerics(text) ==
    LET kept == SelectSeq(text, LAMBDA c : c \notin {" ", "-"})
    IN [i \in DOMAIN kept |-> IF kept[i] = "a" THEN "A" ELSE kept[i]]

\* C31: postcode_display(s) is postcode_norm(s) with one space before its last
\* three characters when postcode_norm(s) is longer than three characters and
\* postcode_norm(s) otherwise; deleting its spaces gives postcode_norm(s);
\* a staged row joins the canonical postcode of an ONSPD row exactly when the
\* two texts have the same normal form; and both functions are idempotent
C31_DisplayIsNormWithOneSpace ==
    LET normalized == postcode_norm(env.value)
        n == Len(normalized)
    IN /\ outcome.cmd = "postcode_norm" =>
            /\ outcome.result = Alphanumerics(env.value)
            /\ postcode_norm(outcome.result) = outcome.result
       /\ outcome.cmd = "postcode_display" =>
            /\ n <= 3 => outcome.result = normalized
            /\ n > 3 =>
                 /\ Len(outcome.result) = n + 1
                 /\ outcome.result[n - 2] = " "
                 /\ \A i \in 1..n :
                       outcome.result[IF i <= n - 3 THEN i ELSE i + 1] = normalized[i]
            /\ StripSpaces(outcome.result) = normalized
            /\ postcode_display(outcome.result) = outcome.result
       /\ outcome.cmd = "join" =>
            /\ outcome.result <=> postcode_norm(outcome.staged_value) = normalized
            /\ outcome.staged_value = env.value => outcome.result

\* a text of four alphanumeric characters, one of them in lower case, has been
\* displayed
C31_Witness ==
    /\ outcome.cmd = "postcode_display"
    /\ Len(postcode_norm(env.value)) = 4
    /\ postcode_norm(env.value) # env.value
    /\ outcome.result # env.value

\* the passes of the run that have a committed checkpoint row
CheckpointedPasses(d, build_run_id) ==
    {c[2] : c \in {x \in d.build_pass_checkpoint : x[1] = build_run_id}}

\* C32: in every committed state, the passes of a build run that have a
\* checkpoint row are the first k passes of PASS_ORDER for some k, and no
\* checkpoint row belongs to a run that does not exist
C32_CheckpointsArePrefix ==
    /\ \A build_run_id \in DOMAIN db.build_run :
          \E k \in 0..Len(PASS_ORDER) :
              CheckpointedPasses(db, build_run_id) = {PASS_ORDER[j] : j \in 1..k}
    /\ \A c \in db.build_pass_checkpoint : c[1] \in DOMAIN db.build_run

\* a resumed invocation has just committed a pass of a run that failed after
\* some passes, while the bundle's other run has failed with a different
\* number of checkpoints
C32_Witness ==
    /\ hist.last = "PassCommit"
    /\ op.resume
    /\ op.completed_passes # {}
    /\ Len(db.build_run) = 2
    /\ Cardinality(CheckpointedPasses(db, op.build_run_id)) \in 3..(Len(PASS_ORDER) - 1)
    /\ \E other \in DOMAIN db.build_run :
          /\ other # op.build_run_id
          /\ db.build_run[other].status = "failed"
          /\ CheckpointedPasses(db, other) # {}
          /\ CheckpointedPasses(db, other) # CheckpointedPasses(db, op.build_run_id)

\* the rows the passes of a run write, up to surrogate ids: the components of
\* RunOutputs that hold rows, and the rows of the run in the projection tables
\* of its dataset version
PassOutputs(d, build_run_id) ==
    LET outputs == RunOutputs(d, build_run_id)
    IN [stage |-> outputs.stage, canonical |-> outputs.canonical,
        candidates |-> outputs.candidates, lineage |-> outputs.lineage,
        final |-> outputs.final, final_candidate |-> outputs.final_candidate,
        final_source |-> outputs.final_source,
        projection |-> [kind \in DOMAIN outputs.projection |->
                          UNION {{x \in t.rows : x.produced_build_run_id = build_run_id} :
                                    t \in outputs.projection[kind]}]]

\* what the first k passes of PASS_ORDER write for run build_run_id of bundle 1
\* of FullManifest, executed without failure on a database that holds no
\* output: ExpectedOutputs[build_run_id][k]
ExpectedOutputs ==
    [build_run_id \in 1..MaxBuildRuns |->
        [k \in 0..Len(PASS_ORDER) |->
            LET opened == [CreatedRun EXCEPT
                             !.build_run = [i \in 1..build_run_id |-> CreatedRun.build_run[1]]]
                passed == RunPasses(opened, [candidate_id |-> 0, final_id |-> 0, txid |-> 0],
                                    1, build_run_id, 1, k, ConfiguredWeights)
            IN PassOutputs(passed.d, build_run_id)]]

\* the committed rows of the run in the given components are those of its
\* checkpointed passes, which are the first passes of PASS_ORDER
CheckpointsMatchOutputs(components) ==
    \A build_run_id \in DOMAIN db.build_run :
        LET completed == load_completed_passes(db, build_run_id)
            k == Cardinality(completed)
            committed == PassOutputs(db, build_run_id)
        IN /\ completed = {PASS_ORDER[j] : j \in 1..k}
           /\ \A component \in components :
                 committed[component] = ExpectedOutputs[build_run_id][k][component]

\* C33: in every committed state a pass of a build run has a checkpoint row
\* exactly when the rows the pass writes for the run are committed: the
\* stage, canonical, candidate, lineage, final and projection rows of the run
\* are those of its checkpointed passes and of no other pass
C33_CheckpointIffOutputsCommitted ==
    CheckpointsMatchOutputs({"stage", "canonical", "candidates", "lineage", "final",
                             "final_candidate", "final_source", "projection"})

\* the same of the rows held in tables that are not named after the dataset
\* version: every table but the two projection tables
OwnRowsMatchCheckpoints ==
    CheckpointsMatchOutputs({"stage", "canonical", "candidates", "lineage", "final",
                             "final_candidate", "final_source"})

\* the place of a bundle status in created, built, published
BundleStatusRank(status) ==
    CASE status = "created" -> 1 [] status = "built" -> 2 [] status = "published" -> 3

\* C34: the status of a bundle only moves forward through created, built,
\* published: no operation sets a bundle back, and a run_build after the
\* publication of a bundle leaves the bundle published
C34_BundleStatusOnlyForward ==
    [][\A bundle_id \in DOMAIN db.build_bundle :
          BundleStatusRank(db'.build_bundle[bundle_id].status)
              >= BundleStatusRank(db.build_bundle[bundle_id].status)]_vars

\* the rows a build run has produced: its checkpoints, its stage rows, its
\* rows of the nine output tables and of the versioned projection tables
RowsOfRun(d, build_run_id) ==
    [build_pass_checkpoint |-> load_completed_passes(d, build_run_id),
     stage |-> [t \in StageTables |-> StageRows(d[t], build_run_id)],
     outputs |-> [t \in OutputTables |-> RunRows(d[t], build_run_id)],
     api |-> UNION {{<<t.kind, t.suffix, x>> :
                        x \in {y \in t.rows : y.produced_build_run_id = build_run_id}} :
                    t \in d.api_tables}]

\* the step is one of run_build
RunBuildStep ==
    hist'.last \in {"RunBuildOpen", "RunBuildRefused", "PassExecute", "PassCommit",
                    "PassFault", "MarkBuilt", "MarkBuiltFault", "HandleFailure",
                    "HandleFailureUnrecorded", "Interrupt"}

\* no step of run_build changes the row, or the given rows, of a build run
\* that is built or published; a resumed invocation works on the bundle's
\* latest run among those started or failed, any other on a run with a new id
FinishedRunsUntouched(components) ==
    RunBuildStep =>
        /\ \A build_run_id \in DOMAIN db.build_run :
              db.build_run[build_run_id].status \in {"built", "published"} =>
                  /\ db'.build_run[build_run_id] = db.build_run[build_run_id]
                  /\ \A component \in components :
                        RowsOfRun(db', build_run_id)[component]
                            = RowsOfRun(db, build_run_id)[component]
        /\ hist'.last = "RunBuildOpen" =>
              IF op'.resume
              THEN /\ op'.build_run_id \in ResumableRuns(db, op'.bundle_id)
                   /\ \A r \in ResumableRuns(db, op'.bundle_id) : r <= op'.build_run_id
              ELSE op'.build_run_id \notin DOMAIN db.build_run

\* C35: run_build never modifies a build run that is built or published: its
\* status, current_pass, checkpoints and the rows it produced are the same
\* after every step of a later run_build, new, rebuilt or resumed
C35_FinishedRunsUnchangedByRunBuild ==
    [][FinishedRunsUntouched({"build_pass_checkpoint", "stage", "outputs", "api"})]_vars

\* the same of the rows held in tables that are not named after the dataset
\* version
FinishedRunsKeepOwnRows ==
    [][FinishedRunsUntouched({"build_pass_checkpoint", "stage", "outputs"})]_vars

\* f comes before g in the ranking of the groups of a postcode: the higher
\* raw probability, which within a postcode is the higher frequency score,
\* then the higher confidence, then the name, then the usrn
RankedBefore(f, g) ==
    \/ f.frequency_score > g.frequency_score
    \/ /\ f.frequency_score = g.frequency_score
       /\ \/ ConfRank(f.confidence) > ConfRank(g.confidence)
          \/ /\ ConfRank(f.confidence) = ConfRank(g.confidence)
             /\ \/ StrLess(f.street_name, g.street_name)
                \/ (f.street_name = g.street_name /\ UsrnLess(f.usrn, g.usrn))

\* C36: after pass 8, the rank-1 final row of every postcode has a
\* probability greater than or equal to that of every other final row of the
\* postcode, the streets of the postcode in the projection begin with the
\* rank-1 street, and every probability lies between 0.0000 and 1.0000
C36_RankOneKeepsHighestProbability ==
    (hist.last = "PassExecute" /\ op.pass_name = "8_finalisation" /\ pc = "executed") =>
        LET final == RunRows(tx.postcode_streets_final, op.build_run_id)
            suffix == safe_version_suffix(tx.build_run[op.build_run_id].dataset_version)
        IN /\ \A f \in final : f.probability >= 0 /\ f.probability <= ONE
           /\ \A f \in final :
                (\A g \in final : (g.postcode = f.postcode /\ g # f) => RankedBefore(f, g)) =>
                    /\ \A g \in final : g.postcode = f.postcode =>
                                            f.probability >= g.probability
                    /\ \A t \in ApiTable(tx, "postcode_lookup", suffix) :
                          \A row \in t.rows :
                              row.postcode = f.postcode =>
                                  row.streets_json[1].name = f.street_name

\* the candidates of the run that postcode_streets_final_candidate links to
\* the final row
LinkedCandidates(d, build_run_id, final_id) ==
    {c \in RunRows(d.postcode_street_candidates, build_run_id) :
        \E l \in RunRows(d.postcode_streets_final_candidate, build_run_id) :
            l.final_id = final_id /\ l.candidate_id = c.candidate_id}

\* for every final row of the run, in units of 0.00001: the contribution
\* weights of its source rows sum to its frequency score, which is the sum of
\* Weight(candidate) over its linked candidates, and its source rows are one
\* for each (source_name, ingest_run_id, candidate_type) of those candidates
SourcesAccountFor(d, build_run_id, Weight(_)) ==
    \A f \in RunRows(d.postcode_streets_final, build_run_id) :
        LET linked == LinkedCandidates(d, build_run_id, f.final_id)
            ids == {c.candidate_id : c \in linked}
            sources == {x \in RunRows(d.postcode_streets_final_source, build_run_id) :
                            x.final_id = f.final_id}
            triple(x) == <<x.source_name, x.ingest_run_id, x.candidate_type>>
            triples == {triple(x) : x \in sources}
        IN /\ SumOver(triples, [t \in triples |->
                    (CHOOSE x \in sources : triple(x) = t).contribution_weight])
                = f.frequency_score
           /\ 10 * f.frequency_score
                = SumOver(ids, [i \in ids |->
                    Weight(CHOOSE c \in linked : c.candidate_id = i)])
           /\ Cardinality(sources) = Cardinality(triples)
           /\ triples = {triple(c) : c \in linked}

\* C37: after pass 8, the contribution weights of the final_source rows of
\* every final row sum to the row's frequency_score, which is the sum of the
\* configured weights of the candidates linked to the row, and the
\* (source_name, ingest_run_id, candidate_type) triples of those source rows
\* are exactly the triples of the linked candidates
C37_SourcesSumToFrequencyScore ==
    (hist.last = "PassExecute" /\ op.pass_name = "8_finalisation" /\ pc = "executed") =>
        SourcesAccountFor(tx, op.build_run_id, LAMBDA c : env.weights[c.candidate_type])

\* the same with the weights as tmp_candidate_weights holds them, to four places
SourcesSumToStoredWeights ==
    (hist.last = "PassExecute" /\ op.pass_name = "8_finalisation" /\ pc = "executed") =>
        SourcesAccountFor(tx, op.build_run_id,
                          LAMBDA c : 10 * Numeric4(env.weights[c.candidate_type]))

\* the runs of other bundles than the run's own that are published
PublishedEarlier(d, build_run_id) ==
    {q \in DOMAIN d.build_run :
        /\ d.build_run[q].status = "published"
        /\ d.build_run[q].bundle_id # d.build_run[build_run_id].bundle_id}

\* C38: every successful publish_build of a run points both aliases at the
\* versioned tables of that run, leaves dataset_publication with one row per
\* dataset version published so far (the run's own row, and the rows of the
\* other versions as they were), and leaves every published run of another
\* bundle and that bundle as they were, with status published; a published
\* run that is the only published run of its bundle still has its row. So
\* after any sequence of publications of runs of different bundles the
\* aliases select from the tables of the last one and the earlier runs and
\* bundles are still published
C38_LastPublicationWins ==
    [][\A build_run_id \in DOMAIN db.build_run :
        (/\ hist'.last = "PublishBuild"
         /\ outcome'.status = "published"
         /\ outcome'.id = build_run_id) =>
        LET dataset_version == db.build_run[build_run_id].dataset_version
            suffix == safe_version_suffix(dataset_version)
        IN /\ db'.api_views = {[kind |-> "postcode_lookup", suffix |-> suffix],
                               [kind |-> "postcode_street_lookup", suffix |-> suffix]}
           /\ ApiTable(db', "postcode_lookup", suffix) # {}
           /\ ApiTable(db', "postcode_street_lookup", suffix) # {}
           /\ \A x, y \in db'.dataset_publication :
                    x.dataset_version = y.dataset_version => x = y
           /\ {x.dataset_version : x \in db'.dataset_publication}
                = {x.dataset_version : x \in db.dataset_publication} \cup {dataset_version}
           /\ {x \in db.dataset_publication : x.dataset_version # dataset_version}
                \subseteq db'.dataset_publication
           /\ \E x \in db'.dataset_publication :
                    /\ x.dataset_version = dataset_version
                    /\ x.build_run_id = build_run_id
                    /\ x.lookup_table_name = suffix
                    /\ x.street_lookup_table_name = suffix
           /\ \A x \in db'.dataset_publication :
                    db'.build_run[x.build_run_id].status = "published"
           /\ \A q \in PublishedEarlier(db, build_run_id) :
                    /\ db'.build_run[q] = db.build_run[q]
                    /\ db'.build_bundle[db.build_run[q].bundle_id]
                            = db.build_bundle[db.build_run[q].bundle_id]
                    /\ (\A p \in DOMAIN db.build_run \ {q} :
                            db.build_run[p].status = "published" =>
                                db.build_run[p].bundle_id # db.build_run[q].bundle_id)
                        => \E x \in db'.dataset_publication :
                                /\ x.build_run_id = q
                                /\ x \in db.dataset_publication]_vars

\* a run has just been published after a run of another bundle: the earlier
\* run and its bundle are still published and still have their publication
\* row, and the aliases select from the later run's tables and no longer
\* from the earlier run's
C38_Witness ==
    /\ hist.last = "PublishBuild"
    /\ outcome.status = "published"
    /\ \E q \in PublishedEarlier(db, outcome.id) :
            /\ db.build_bundle[db.build_run[q].bundle_id].status = "published"
            /\ \E x, y \in db.dataset_publication :
                    /\ x.build_run_id = q
                    /\ y.build_run_id = outcome.id
                    /\ x.publish_txid < y.publish_txid
            /\ ApiTable(db, "postcode_lookup",
                        safe_version_suffix(db.build_run[q].dataset_version)) # {}
            /\ AliasesOf(db) = {safe_version_suffix(db.build_run[outcome.id].dataset_version)}
            /\ safe_version_suffix(db.build_run[q].dataset_version) \notin AliasesOf(db)

====
